---- MODULE Spec2Model ----
(***************************************************************************)
(* Model of the Hash ("Map") engine of hash.c, in the st_table build (the  *)
(* #else / #if !WITH_OBJC branches, the ones that carry iter_lev, the      *)
(* HASH_DELETED flag and the Qundef tombstones).                           *)
(*                                                                         *)
(* One Hash object is modelled (variable hash).  Ruby blocks that run      *)
(* while a traversal of that Hash is in progress are modelled by the       *)
(* traversal stack (variable stack): while the top frame is at "yield",    *)
(* the block is running and may call any method of the Hash, start a       *)
(* nested traversal, return a value, break or raise.                       *)
(*                                                                         *)
(* The slot store (st.c) is not part of the sources at hand; the st_*      *)
(* operators below follow the Slot Store of the specification: an ordered  *)
(* sequence of slots, tombstones kept in place while a traversal is        *)
(* active, and a structural generation (num_bins) that changes when the    *)
(* table grows.                                                            *)
(***************************************************************************)
EXTENDS Integers, Sequences, FiniteSets, TLC

VARIABLES hash, stack, trace, result

vars == <<hash, stack, result, trace>>

(***************************************************************************)
(* Bounds of the model.                                                    *)
(***************************************************************************)
MaxSlots == 3      \* slots (live + tombstoned) a table may hold
MaxNest  == 2      \* nested block traversals in progress
MaxBlockCalls == 1 \* methods the block of update calls during one update
InitBins == 2      \* capacity of a fresh table, in entries
NTables  == 2      \* distinct table addresses the allocator hands out

(***************************************************************************)
(* Values.  Keys are objects: 1 and 2 are Fixnums, 3 is a (mutable) String *)
(* and 4 is the frozen String copy of 3 with the same contents.            *)
(***************************************************************************)
Qundef == -1
Qnil   == 0

Fixnums  == {1, 2}
Strings  == {3, 4}
Keys     == Fixnums \cup Strings
UserKeys == {1, 2, 3}
UserVals == {Qnil, 1}
TravVals == {1}

\* rb_str_new4: the frozen copy of a String (a frozen String is its own copy)
rb_str_new4(key) == 4

\* contents of a String object
StrValue(key) == "s"

\* rb_any_cmp: 0 when the two keys are the same key under value equality
rb_any_cmp(a, b) ==
    IF a = b THEN 0
    ELSE IF a = Qundef \/ b = Qundef THEN -1
    ELSE IF a \in Fixnums /\ b \in Fixnums THEN 1
    ELSE IF a \in Strings /\ b \in Strings
         THEN (IF StrValue(a) = StrValue(b) THEN 0 ELSE 1)
    ELSE 1

\* st_numcmp of identhash: identity of the two objects
st_numcmp(a, b) == IF a = b THEN 0 ELSE 1

\* the compare function of a table type (objhash / identhash)
TypeCompare(type, a, b) ==
    IF type = "identhash" THEN st_numcmp(a, b) ELSE rb_any_cmp(a, b)

\* rb_equal (==): the same object, or two Strings with the same contents
rb_equal(a, b) ==
    \/ a = b
    \/ a \in Strings /\ b \in Strings /\ StrValue(a) = StrValue(b)

(***************************************************************************)
(* Slot Store.  A table is [type, index, num_bins, num_entries, slots]; a   *)
(* slot is [key, val], and a tombstone is the slot <<Qundef, Qundef>>.     *)
(* type is the comparator in force; index is the comparator whose hash     *)
(* codes placed the slots in their bins, the type the table was built      *)
(* with.  The two differ only when the type was changed and the table has  *)
(* not been rebuilt since.                                                 *)
(***************************************************************************)
Max(a, b) == IF a >= b THEN a ELSE b

Tombstone == [key |-> Qundef, val |-> Qundef]

st_init_table_with_size(type, size) ==
    [type |-> type, index |-> type, num_bins |-> Max(InitBins, size),
     num_entries |-> 0, slots |-> <<>>]

st_init_table(type) == st_init_table_with_size(type, 0)

\* the least index of a set of indices, 0 when the set is empty
FirstOf(S) == IF S = {} THEN 0 ELSE CHOOSE i \in S : \A j \in S : i <= j

\* TRUE when the hash code of key under the type in force leads to the bin
\* the slots were placed in: always in a table built with that type; in a
\* table not yet rebuilt, for the keys that have the same hash code under
\* both types (rb_any_hash and st_numhash agree on a Fixnum, not on a String)
SameBin(t, key) == t.index = t.type \/ key \notin Strings

\* index of the slot holding key, 0 when there is none
st_find(t, key) ==
    FirstOf({i \in 1..Len(t.slots) :
                TypeCompare(t.type, t.slots[i].key, key) = 0 /\ SameBin(t, key)})

st_lookup(t, key) == st_find(t, key) # 0

st_value(t, key) == t.slots[st_find(t, key)].val

\* a new entry goes to the end of the order; the table grows (its structural
\* generation changes) when it is full
st_add_direct(t, key, val) ==
    [t EXCEPT !.slots = Append(@, [key |-> key, val |-> val]),
              !.num_entries = @ + 1,
              !.num_bins = IF t.num_entries >= t.num_bins THEN 2 * @ ELSE @]

st_insert(t, key, val) ==
    IF st_lookup(t, key)
    THEN [t EXCEPT !.slots[st_find(t, key)].val = val]
    ELSE st_add_direct(t, key, val)

SeqRemove(s, i) ==
    [j \in 1..(Len(s) - 1) |-> IF j < i THEN s[j] ELSE s[j + 1]]

\* physical removal
st_delete(t, key) ==
    IF st_lookup(t, key)
    THEN [t EXCEPT !.slots = SeqRemove(@, st_find(t, key)), !.num_entries = @ - 1]
    ELSE t

\* removal while a traversal is active: the slot stays, marked with Qundef
st_delete_safe(t, key) ==
    IF st_lookup(t, key)
    THEN [t EXCEPT !.slots[st_find(t, key)] = Tombstone, !.num_entries = @ - 1]
    ELSE t

\* compaction: every slot marked Qundef is physically removed
st_cleanup_safe(t) ==
    [t EXCEPT !.slots = SelectSeq(@, LAMBDA s : s.key # Qundef)]

st_clear(t) == [t EXCEPT !.slots = <<>>, !.num_entries = 0]

(***************************************************************************)
(* The Hash object: struct RHash and its flags.                            *)
(*   ntbl         address of its table, 0 for NULL                         *)
(*   tbl          the table ntbl points to                                 *)
(*   iter_lev     traversals of this Hash in progress                      *)
(*   deleted      HASH_DELETED                                             *)
(*   frozen       FL_FREEZE                                                *)
(*   proc_default HASH_PROC_DEFAULT                                        *)
(*   ifnone       the default value or default proc                        *)
(***************************************************************************)
NoTable ==
    [type |-> "none", index |-> "none", num_bins |-> 0, num_entries |-> 0, slots |-> <<>>]

\* hash_alloc: a Hash without a table and with ifnone = nil
hash_alloc ==
    [ntbl |-> 0, tbl |-> NoTable, iter_lev |-> 0, deleted |-> FALSE,
     frozen |-> FALSE, proc_default |-> FALSE, ifnone |-> Qnil]

\* rb_hash_new
rb_hash_new == hash_alloc

\* the allocator: an address that differs from the one in use
NewTable(old) == IF old >= NTables THEN 1 ELSE old + 1

\* what an operation hands back: the Hash, the value returned, the error raised
Ret(h, val, err) == [h |-> h, val |-> val, err |-> err]

\* rb_obj_freeze through rb_hash_freeze
rb_hash_freeze(h) == [h EXCEPT !.frozen = TRUE]

\* rb_hash_modify_check: the error raised, "none" when the Hash may be modified
rb_hash_modify_check(h) == IF h.frozen THEN "frozen" ELSE "none"

\* rb_hash_tbl: the table is created on first use
rb_hash_tbl(h) ==
    IF h.ntbl = 0
    THEN [h EXCEPT !.ntbl = NewTable(0), !.tbl = st_init_table("objhash")]
    ELSE h

\* rb_hash_modify: check, then make sure the table exists
rb_hash_modify(h) ==
    IF rb_hash_modify_check(h) # "none"
    THEN Ret(h, Qnil, rb_hash_modify_check(h))
    ELSE Ret(rb_hash_tbl(h), Qnil, "none")

\* rb_hash_size counting the slots of the table
rb_hash_size_slots(h) == IF h.ntbl = 0 THEN 0 ELSE Len(h.tbl.slots)

\* RHASH_SIZE / rb_hash_size
rb_hash_size(h) == IF h.ntbl = 0 THEN 0 ELSE h.tbl.num_entries

\* rb_hash_empty_p: RHASH_EMPTY_P(hash)
rb_hash_empty_p(h) == rb_hash_size(h) = 0

\* rb_hash_aset that stores the frozen copy of a new String key whatever the
\* type of the table
rb_hash_aset_tbl_copy(m, h, key, val) ==
    IF m.err # "none" THEN Ret(h, Qnil, m.err)
    ELSE IF key \notin Strings \/ st_lookup(m.h.tbl, key)
         THEN Ret([m.h EXCEPT !.tbl = st_insert(@, key, val)], val, "none")
         ELSE Ret([m.h EXCEPT !.tbl = st_add_direct(@, rb_str_new4(key), val)], val, "none")

\* rb_hash_aset that removes the entry of a key the Hash has and adds the key
\* anew, at the end
rb_hash_aset_tbl_move(m, h, key, val) ==
    IF m.err # "none" THEN Ret(h, Qnil, m.err)
    ELSE IF st_lookup(m.h.tbl, key)
         THEN Ret([m.h EXCEPT !.tbl = st_add_direct(st_delete(@, key),
                                                    IF key \in Strings THEN rb_str_new4(key) ELSE key,
                                                    val)],
                  val, "none")
         ELSE Ret([m.h EXCEPT !.tbl = st_add_direct(@,
                                                    IF key \in Strings THEN rb_str_new4(key) ELSE key,
                                                    val)],
                  val, "none")

\* rb_hash_aset: m is what rb_hash_modify answered; then the store into the table
rb_hash_aset_tbl(m, h, key, val) ==
    IF m.err # "none" THEN Ret(h, Qnil, m.err)
    ELSE IF m.h.tbl.type = "identhash" \/ key \notin Strings \/ st_lookup(m.h.tbl, key)
         THEN Ret([m.h EXCEPT !.tbl = st_insert(@, key, val)], val, "none")
         ELSE Ret([m.h EXCEPT !.tbl = st_add_direct(@, rb_str_new4(key), val)], val, "none")

rb_hash_aset(h, key, val) == rb_hash_aset_tbl(rb_hash_modify(h), h, key, val)

\* rb_hash_delete_key without its iter_lev test: the entry is always removed
\* from the table at once
rb_hash_delete_key_now(h, key) ==
    IF h.ntbl = 0 THEN Ret(h, Qundef, "none")
    ELSE IF st_lookup(h.tbl, key)
         THEN Ret([h EXCEPT !.tbl = st_delete(@, key)], st_value(h.tbl, key), "none")
         ELSE Ret(h, Qundef, "none")

\* rb_hash_delete_key that sets HASH_DELETED during a traversal but leaves
\* the entry in its slot
rb_hash_delete_key_flag(h, key) ==
    IF h.ntbl = 0 THEN Ret(h, Qundef, "none")
    ELSE IF h.iter_lev > 0
         THEN IF st_lookup(h.tbl, key)
              THEN Ret([h EXCEPT !.deleted = TRUE], st_value(h.tbl, key), "none")
              ELSE Ret(h, Qundef, "none")
         ELSE IF st_lookup(h.tbl, key)
              THEN Ret([h EXCEPT !.tbl = st_delete(@, key)], st_value(h.tbl, key), "none")
              ELSE Ret(h, Qundef, "none")

\* rb_hash_delete_key: the value removed, Qundef when the key is absent
rb_hash_delete_key(h, key) ==
    IF h.ntbl = 0 THEN Ret(h, Qundef, "none")
    ELSE IF h.iter_lev > 0
         THEN IF st_lookup(h.tbl, key)
              THEN Ret([h EXCEPT !.tbl = st_delete_safe(@, key), !.deleted = TRUE],
                       st_value(h.tbl, key), "none")
              ELSE Ret(h, Qundef, "none")
         ELSE IF st_lookup(h.tbl, key)
              THEN Ret([h EXCEPT !.tbl = st_delete(@, key)], st_value(h.tbl, key), "none")
              ELSE Ret(h, Qundef, "none")

\* rb_hash_delete, called without a block: rb_hash_modify, rb_hash_delete_key,
\* and nil when the key was absent
rb_hash_delete_val(d) == IF d.val # Qundef THEN d ELSE Ret(d.h, Qnil, "none")

rb_hash_delete_tbl(m, h, key) ==
    IF m.err # "none" THEN Ret(h, Qnil, m.err)
    ELSE rb_hash_delete_val(rb_hash_delete_key(m.h, key))

rb_hash_delete(h, key) == rb_hash_delete_tbl(rb_hash_modify(h), h, key)

\* the Proc object rb_block_proc() makes of the block given to Hash.new, the
\* value that Proc answers for a key, and the value the block given to fetch
\* answers for a key
DefaultProc == 9

ProcValue(key) == 10 + key

BlockValue(key) == 20 + key

\* what a method that may call back hands back: the value returned, the error
\* raised, and the callbacks it invoked, in order, with their arguments
Ans(val, err, calls) == [val |-> val, err |-> err, calls |-> calls]

\* rb_funcall(ifnone, id_yield, 2, hash, key): a Proc is called with the Hash
\* and the key; any other object has no such method
rb_funcall_yield(ifnone, h, key) ==
    IF ifnone = DefaultProc
    THEN Ans(ProcValue(key), "none", << <<"default_proc", h, key>> >>)
    ELSE Ans(Qnil, "NoMethodError", <<>>)

\* rb_hash_default, called with argc arguments
rb_hash_default(h, argc, key) ==
    IF h.proc_default
    THEN IF argc = 0 THEN Ans(Qnil, "none", <<>>)
         ELSE rb_funcall_yield(h.ifnone, h, key)
    ELSE Ans(h.ifnone, "none", <<>>)

\* rb_hash_delete that asks default(key) for a key the Hash has not
rb_hash_delete_ans_default(d, key, block_given) ==
    Ret(d.h,
        IF d.val # Qundef THEN Ans(d.val, "none", <<>>)
        ELSE IF block_given THEN Ans(BlockValue(key), "none", << <<"block", key>> >>)
        ELSE rb_hash_default(d.h, 1, key),
        "none")

\* rb_hash_delete, called with or without a block: what it hands back is the
\* value removed; for a key the Hash has not, what the block answers for the
\* key, or nil without a block.  d is what rb_hash_delete_key answered
rb_hash_delete_ans(d, key, block_given) ==
    Ret(d.h,
        IF d.val # Qundef THEN Ans(d.val, "none", <<>>)
        ELSE IF block_given THEN Ans(BlockValue(key), "none", << <<"block", key>> >>)
        ELSE Ans(Qnil, "none", <<>>),
        "none")

rb_hash_delete_block_tbl(m, h, key, block_given) ==
    IF m.err # "none" THEN Ret(h, Ans(Qnil, m.err, <<>>), m.err)
    ELSE rb_hash_delete_ans(rb_hash_delete_key(m.h, key), key, block_given)

rb_hash_delete_block(h, key, block_given) ==
    rb_hash_delete_block_tbl(rb_hash_modify(h), h, key, block_given)

\* rb_hash_aref: the stored value, or what default(key) answers
rb_hash_aref(h, key) ==
    IF h.ntbl = 0 \/ ~st_lookup(h.tbl, key)
    THEN rb_hash_default(h, 1, key)
    ELSE Ans(st_value(h.tbl, key), "none", <<>>)

\* rb_hash_aref that stores what default(key) answered under the key
rb_hash_aref_store(h, key) ==
    IF h.ntbl = 0 \/ ~st_lookup(h.tbl, key)
    THEN rb_hash_aset(h, key, rb_hash_default(h, 1, key).val).h
    ELSE h

\* the Hash after rb_hash_aref: the table is read where there is one, through
\* RHASH(hash)->ntbl and not through rb_hash_tbl, and nothing is written
rb_hash_aref_hash(h, key) == h

\* rb_hash_fetch that asks default(key) where the code raises
rb_hash_fetch_default(h, key, argc, if_none, block_given) ==
    IF h.ntbl = 0 \/ ~st_lookup(h.tbl, key)
    THEN IF block_given THEN Ans(BlockValue(key), "none", << <<"block", key>> >>)
         ELSE IF argc = 1 THEN rb_hash_default(h, 1, key)
         ELSE Ans(if_none, "none", <<>>)
    ELSE Ans(st_value(h.tbl, key), "none", <<>>)

\* rb_hash_fetch that prefers its second argument to its block
rb_hash_fetch_arg_first(h, key, argc, if_none, block_given) ==
    IF h.ntbl = 0 \/ ~st_lookup(h.tbl, key)
    THEN IF argc = 2 THEN Ans(if_none, "none", <<>>)
         ELSE IF block_given THEN Ans(BlockValue(key), "none", << <<"block", key>> >>)
         ELSE Ans(Qnil, "key not found", <<>>)
    ELSE Ans(st_value(h.tbl, key), "none", <<>>)

\* rb_hash_fetch(key [, if_none]) with or without a block
rb_hash_fetch(h, key, argc, if_none, block_given) ==
    IF h.ntbl = 0 \/ ~st_lookup(h.tbl, key)
    THEN IF block_given THEN Ans(BlockValue(key), "none", << <<"block", key>> >>)
         ELSE IF argc = 1 THEN Ans(Qnil, "key not found", <<>>)
         ELSE Ans(if_none, "none", <<>>)
    ELSE Ans(st_value(h.tbl, key), "none", <<>>)

\* rb_hash_compare_by_id_p
rb_hash_compare_by_id_p(h) == h.ntbl # 0 /\ h.tbl.type = "identhash"

\* rb_hash_has_key
rb_hash_has_key(h, key) == h.ntbl # 0 /\ st_lookup(h.tbl, key)

\* rb_hash_set_default
rb_hash_set_default_tbl(m, h, ifnone) ==
    IF m.err # "none" THEN Ret(h, Qnil, m.err)
    ELSE Ret([m.h EXCEPT !.ifnone = ifnone, !.proc_default = FALSE], ifnone, "none")

rb_hash_set_default(h, ifnone) == rb_hash_set_default_tbl(rb_hash_modify(h), h, ifnone)

\* rb_hash_initialize(argc arguments, with or without a block): m is what
\* rb_hash_modify answered
rb_hash_initialize_tbl(m, h, argc, ifnone, block_given) ==
    IF m.err # "none" THEN Ret(h, Qnil, m.err)
    ELSE IF block_given
         THEN IF argc > 0 THEN Ret(m.h, Qnil, "wrong number of arguments")
              ELSE Ret([m.h EXCEPT !.ifnone = DefaultProc, !.proc_default = TRUE],
                       "self", "none")
    ELSE Ret([m.h EXCEPT !.ifnone = IF argc = 0 THEN Qnil ELSE ifnone], "self", "none")

rb_hash_initialize(h, argc, ifnone, block_given) ==
    rb_hash_initialize_tbl(rb_hash_modify(h), h, argc, ifnone, block_given)

(***************************************************************************)
(* The traversal primitive.                                                *)
(***************************************************************************)
\* hash_foreach_iter, its first test: a slot marked Qundef is passed over
IsDeleted(key) == key = Qundef

\* hash_foreach_iter answering ST_CONTINUE where the code answers ST_CHECK
hash_foreach_iter_post_cont(h, tblp, key, status) ==
    IF h.ntbl # tblp
    THEN [h |-> h, ret |-> "RAISE", err |-> "rehash occurred during iteration"]
    ELSE IF status = "ST_DELETE"
         THEN [h |-> [h EXCEPT !.tbl = st_delete_safe(@, key), !.deleted = TRUE],
               ret |-> "ST_CONTINUE", err |-> "none"]
    ELSE IF status = "ST_STOP"
         THEN [h |-> h, ret |-> "ST_STOP", err |-> "none"]
    ELSE [h |-> h, ret |-> "ST_CONTINUE", err |-> "none"]

\* hash_foreach_iter after the step function has returned status
hash_foreach_iter_post(h, tblp, key, status) ==
    IF h.ntbl # tblp
    THEN [h |-> h, ret |-> "RAISE", err |-> "rehash occurred during iteration"]
    ELSE IF status = "ST_DELETE"
         THEN [h |-> [h EXCEPT !.tbl = st_delete_safe(@, key), !.deleted = TRUE],
               ret |-> "ST_CHECK", err |-> "none"]
    ELSE IF status = "ST_STOP"
         THEN [h |-> h, ret |-> "ST_STOP", err |-> "none"]
    ELSE [h |-> h, ret |-> "ST_CHECK", err |-> "none"]

\* hash_foreach_ensure without the compaction
hash_foreach_ensure_keep(h) == [h EXCEPT !.iter_lev = @ - 1]

\* hash_foreach_ensure
hash_foreach_ensure(h) ==
    LET h1 == [h EXCEPT !.iter_lev = @ - 1] IN
    IF h1.iter_lev = 0 /\ h1.deleted
    THEN [h1 EXCEPT !.tbl = st_cleanup_safe(@), !.deleted = FALSE]
    ELSE h1

\* rb_hash_foreach without the count of the traversals in progress
rb_hash_foreach_enter_none(h) == h

\* rb_hash_foreach on entry: one more traversal in progress
rb_hash_foreach_enter(h) == [h EXCEPT !.iter_lev = @ + 1]

\* st_foreach after a step that answered ST_CHECK: TRUE when the table changed
\* structurally under the traversal
st_foreach_modified(bins, t) == t.num_bins # bins

(***************************************************************************)
(* Step functions that call no Ruby block.  Each takes the Hash, its own   *)
(* argument (acc) and one entry, and answers [h, acc, status, err].        *)
(***************************************************************************)
FnRet(h, acc, status, err) == [h |-> h, acc |-> acc, status |-> status, err |-> err]

\* "if (key == Qundef) return ST_CONTINUE;", the first line of most step functions
SkipUndef(h, acc, key, r) ==
    IF key = Qundef THEN FnRet(h, acc, "ST_CONTINUE", "none") ELSE r

\* keys_i
keys_i(h, acc, key, value) ==
    SkipUndef(h, acc, key, FnRet(h, Append(acc, key), "ST_CONTINUE", "none"))

\* values_i
values_i(h, acc, key, value) ==
    SkipUndef(h, acc, key, FnRet(h, Append(acc, value), "ST_CONTINUE", "none"))

\* to_a_i
to_a_i(h, acc, key, value) ==
    SkipUndef(h, acc, key, FnRet(h, Append(acc, <<key, value>>), "ST_CONTINUE", "none"))

\* key_i: acc is <<value sought, key found>>
key_i(h, acc, key, value) ==
    IF rb_equal(value, acc[1])
    THEN FnRet(h, <<acc[1], key>>, "ST_STOP", "none")
    ELSE FnRet(h, acc, "ST_CONTINUE", "none")

\* rb_hash_search_value: acc is <<found, value sought>>
rb_hash_search_value(h, acc, key, value) ==
    SkipUndef(h, acc, key,
        IF rb_equal(value, acc[2])
        THEN FnRet(h, <<TRUE, acc[2]>>, "ST_STOP", "none")
        ELSE FnRet(h, acc, "ST_CONTINUE", "none"))

\* assoc_i: acc is <<object sought, pair found>>
assoc_i(h, acc, key, value) ==
    SkipUndef(h, acc, key,
        IF rb_equal(acc[1], key)
        THEN FnRet(h, <<acc[1], <<key, value>>>>, "ST_STOP", "none")
        ELSE FnRet(h, acc, "ST_CONTINUE", "none"))

\* clear_i
clear_i(h, acc, key, value) == FnRet(h, acc, "ST_DELETE", "none")

\* shift_i: acc is the shift_var <<key, val>>
shift_i(h, acc, key, value) ==
    IF key = Qundef THEN FnRet(h, acc, "ST_CONTINUE", "none")
    ELSE IF acc[1] # Qundef THEN FnRet(h, acc, "ST_STOP", "none")
    ELSE FnRet(h, <<key, value>>, "ST_DELETE", "none")

\* shift_i_safe
shift_i_safe(h, acc, key, value) ==
    IF key = Qundef THEN FnRet(h, acc, "ST_CONTINUE", "none")
    ELSE FnRet(h, <<key, value>>, "ST_STOP", "none")

\* rb_hash_rehash_i: acc is the new table
rb_hash_rehash_i(h, acc, key, value) ==
    FnRet(h, IF key # Qundef THEN st_insert(acc, key, value) ELSE acc,
          "ST_CONTINUE", "none")

\* rb_hash_invert_i that leaves an entry the new Hash has as it is
rb_hash_invert_i_first(h, acc, key, value) ==
    SkipUndef(h, acc, key,
        FnRet(h, IF rb_hash_has_key(acc, value) THEN acc ELSE rb_hash_aset(acc, value, key).h,
              "ST_CONTINUE", "none"))

\* rb_hash_invert_i: acc is the new Hash
rb_hash_invert_i(h, acc, key, value) ==
    SkipUndef(h, acc, key,
        FnRet(h, rb_hash_aset(acc, value, key).h, "ST_CONTINUE", "none"))

\* rb_hash_update_i and replace_i: acc is the Hash stored into, another
\* Hash than the one traversed; a is what rb_hash_aset answered
StoredInto(h, a) == FnRet(h, a.h, "ST_CONTINUE", a.err)

rb_hash_update_i(h, acc, key, value) ==
    SkipUndef(h, acc, key, StoredInto(h, rb_hash_aset(acc, key, value)))

\* rb_hash_update_i when the Hash stored into is the Hash traversed
StoredSelf(acc, a) == FnRet(a.h, acc, "ST_CONTINUE", a.err)

rb_hash_update_i_self(h, acc, key, value) ==
    SkipUndef(h, acc, key, StoredSelf(acc, rb_hash_aset(h, key, value)))

\* the block given to update is described by the key it raises for (0 when it
\* raises for none) and by what it answers for any other key: "old", the
\* value the receiver has, or "new", the value of the other Hash
rb_yield_values_new(ans, key, oldval, newval) == newval

rb_yield_values(ans, key, oldval, newval) == IF ans = "old" THEN oldval ELSE newval

\* rb_hash_update_block_i: acc is [h, blk, ans, calls], the Hash stored into
\* (another Hash than the one traversed), the block, and the arguments of the
\* calls of the block so far; a is what rb_hash_aset answered
StoredBlock(h, acc, a) == FnRet(h, [acc EXCEPT !.h = a.h], "ST_CONTINUE", a.err)

Yielded(acc, key, value) ==
    [acc EXCEPT !.calls = Append(@, <<key, rb_hash_aref(acc.h, key).val, value>>)]

rb_hash_update_block_i(h, acc, key, value) ==
    SkipUndef(h, acc, key,
        IF rb_hash_has_key(acc.h, key)
        THEN IF acc.blk = key THEN FnRet(h, Yielded(acc, key, value), "ST_CONTINUE", "raise")
             ELSE StoredBlock(h, Yielded(acc, key, value), rb_hash_aset(acc.h, key,
                      rb_yield_values(acc.ans, key, rb_hash_aref(acc.h, key).val, value)))
        ELSE StoredBlock(h, acc, rb_hash_aset(acc.h, key, value)))

CallFunc(fn, h, acc, key, value) ==
    CASE fn = "keys_i"               -> keys_i(h, acc, key, value)
      [] fn = "values_i"             -> values_i(h, acc, key, value)
      [] fn = "to_a_i"               -> to_a_i(h, acc, key, value)
      [] fn = "key_i"                -> key_i(h, acc, key, value)
      [] fn = "rb_hash_search_value" -> rb_hash_search_value(h, acc, key, value)
      [] fn = "assoc_i"              -> assoc_i(h, acc, key, value)
      [] fn = "clear_i"              -> clear_i(h, acc, key, value)
      [] fn = "shift_i"              -> shift_i(h, acc, key, value)
      [] fn = "shift_i_safe"         -> shift_i_safe(h, acc, key, value)
      [] fn = "rb_hash_rehash_i"     -> rb_hash_rehash_i(h, acc, key, value)
      [] fn = "rb_hash_invert_i"     -> rb_hash_invert_i(h, acc, key, value)
      [] fn = "rb_hash_update_i"     -> rb_hash_update_i(h, acc, key, value)
      [] fn = "rb_hash_update_i_self" -> rb_hash_update_i_self(h, acc, key, value)
      [] fn = "rb_hash_update_block_i" -> rb_hash_update_block_i(h, acc, key, value)

\* hash_foreach_iter for a step function that calls no block:
\* [h, acc, ret, err], ret one of ST_CONTINUE, ST_CHECK, ST_STOP, RAISE
hash_foreach_iter_ret(r, p) ==
    [h |-> p.h, acc |-> r.acc, ret |-> p.ret, err |-> p.err]

hash_foreach_iter_status(h, key, r) ==
    IF r.err # "none"
    THEN [h |-> r.h, acc |-> r.acc, ret |-> "RAISE", err |-> r.err]
    ELSE hash_foreach_iter_ret(r, hash_foreach_iter_post(r.h, h.ntbl, key, r.status))

hash_foreach_iter(h, fn, acc, key, value) ==
    IF IsDeleted(key)
    THEN [h |-> h, acc |-> acc, ret |-> "ST_CONTINUE", err |-> "none"]
    ELSE hash_foreach_iter_status(h, key, CallFunc(fn, h, acc, key, value))

\* hash_foreach_call: st_foreach over the slots from pos on, in order; the
\* error "hash modified during iteration" when st_foreach reports a change
RECURSIVE hash_foreach_call(_, _, _, _)
RECURSIVE st_foreach_next(_, _, _, _)
hash_foreach_call(h, fn, acc, pos) ==
    IF pos > Len(h.tbl.slots) THEN [h |-> h, acc |-> acc, err |-> "none"]
    ELSE st_foreach_next(h, fn, pos,
             hash_foreach_iter(h, fn, acc, h.tbl.slots[pos].key, h.tbl.slots[pos].val))

\* st_foreach once hash_foreach_iter has answered it for the slot at pos
st_foreach_next(h, fn, pos, it) ==
    IF it.ret = "RAISE" THEN [h |-> it.h, acc |-> it.acc, err |-> it.err]
    ELSE IF it.ret = "ST_STOP" THEN [h |-> it.h, acc |-> it.acc, err |-> "none"]
    ELSE IF it.ret = "ST_CHECK" /\ st_foreach_modified(h.tbl.num_bins, it.h.tbl)
         THEN [h |-> it.h, acc |-> it.acc, err |-> "hash modified during iteration"]
    ELSE hash_foreach_call(it.h, fn, it.acc, pos + 1)

\* rb_hash_foreach with a step function that calls no block: the whole
\* traversal; rb_ensure runs hash_foreach_ensure however hash_foreach_call ended
rb_ensure(r) == [h |-> hash_foreach_ensure(r.h), acc |-> r.acc, err |-> r.err]

rb_hash_foreach(h, fn, acc) ==
    IF h.ntbl = 0 THEN [h |-> h, acc |-> acc, err |-> "none"]
    ELSE rb_ensure(hash_foreach_call(rb_hash_foreach_enter(h), fn, acc, 1))

(***************************************************************************)
(* Methods that call no Ruby block.                                        *)
(***************************************************************************)
\* a method that returns its receiver after a traversal r
RetSelf(r) == Ret(r.h, IF r.err = "none" THEN "self" ELSE Qnil, r.err)

\* rb_hash_clear that gives the table up instead of emptying it
rb_hash_clear_free(h) ==
    IF rb_hash_modify_check(h) # "none" THEN Ret(h, Qnil, rb_hash_modify_check(h))
    ELSE IF h.ntbl = 0 THEN Ret(h, "self", "none")
    ELSE IF h.tbl.num_entries > 0
         THEN IF h.iter_lev > 0
              THEN RetSelf(rb_hash_foreach(h, "clear_i", 0))
              ELSE Ret([h EXCEPT !.ntbl = 0, !.tbl = NoTable], "self", "none")
    ELSE Ret(h, "self", "none")

\* rb_hash_clear
rb_hash_clear(h) ==
    IF rb_hash_modify_check(h) # "none" THEN Ret(h, Qnil, rb_hash_modify_check(h))
    ELSE IF h.ntbl = 0 THEN Ret(h, "self", "none")
    ELSE IF h.tbl.num_entries > 0
         THEN IF h.iter_lev > 0
              THEN RetSelf(rb_hash_foreach(h, "clear_i", 0))
              ELSE Ret([h EXCEPT !.tbl = st_clear(@)], "self", "none")
    ELSE Ret(h, "self", "none")

\* rb_hash_shift that hands back nil for an empty Hash
rb_hash_shift_var_nil(r) ==
    IF r.err # "none" THEN Ret(r.h, Qnil, r.err)
    ELSE IF r.acc[1] # Qundef
         THEN Ret(IF r.h.iter_lev > 0 THEN rb_hash_delete_key(r.h, r.acc[1]).h
                  ELSE r.h,
                  r.acc, "none")
    ELSE Ret(r.h, Qnil, "none")

\* rb_hash_shift: rb_hash_modify, the traversal with shift_i or shift_i_safe,
\* and what is returned for the shift_var the traversal left; for an empty
\* Hash what the default proc answers for (hash, nil), or ifnone
rb_hash_shift_var(r) ==
    IF r.err # "none" THEN Ret(r.h, Qnil, r.err)
    ELSE IF r.acc[1] # Qundef
         THEN Ret(IF r.h.iter_lev > 0 THEN rb_hash_delete_key(r.h, r.acc[1]).h
                  ELSE r.h,
                  r.acc, "none")
    ELSE IF r.h.proc_default
         THEN Ret(r.h, rb_funcall_yield(r.h.ifnone, r.h, Qnil).val,
                  rb_funcall_yield(r.h.ifnone, r.h, Qnil).err)
    ELSE Ret(r.h, r.h.ifnone, "none")

rb_hash_shift_tbl(m, h) ==
    IF m.err # "none" THEN Ret(h, Qnil, m.err)
    ELSE rb_hash_shift_var(rb_hash_foreach(m.h,
             IF m.h.iter_lev > 0 THEN "shift_i_safe" ELSE "shift_i",
             <<Qundef, Qundef>>))

rb_hash_shift(h) == rb_hash_shift_tbl(rb_hash_modify(h), h)

\* rb_hash_rehash, its end: the table r.acc filled by the traversal replaces
\* the table of the Hash
rb_hash_rehash_swap(h, r) ==
    IF r.err # "none" THEN Ret(r.h, Qnil, r.err)
    ELSE Ret([r.h EXCEPT !.ntbl = NewTable(h.ntbl), !.tbl = r.acc], "self", "none")

\* rb_hash_rehash without its iter_lev test
rb_hash_rehash_any(h) ==
    IF rb_hash_modify_check(h) # "none" THEN Ret(h, Qnil, rb_hash_modify_check(h))
    ELSE IF h.ntbl = 0 THEN Ret(h, "self", "none")
    ELSE rb_hash_rehash_swap(h, rb_hash_foreach(h, "rb_hash_rehash_i",
             st_init_table_with_size(h.tbl.type, h.tbl.num_entries)))

\* rb_hash_rehash
rb_hash_rehash(h) ==
    IF h.iter_lev > 0 THEN Ret(h, Qnil, "rehash during iteration")
    ELSE IF rb_hash_modify_check(h) # "none" THEN Ret(h, Qnil, rb_hash_modify_check(h))
    ELSE IF h.ntbl = 0 THEN Ret(h, "self", "none")
    ELSE rb_hash_rehash_swap(h, rb_hash_foreach(h, "rb_hash_rehash_i",
             st_init_table_with_size(h.tbl.type, h.tbl.num_entries)))

\* rb_hash_compare_by_id
rb_hash_compare_by_id_tbl(m, h) ==
    IF m.err # "none" THEN Ret(h, Qnil, m.err)
    ELSE rb_hash_rehash([m.h EXCEPT !.tbl.type = "identhash"])

rb_hash_compare_by_id(h) == rb_hash_compare_by_id_tbl(rb_hash_modify(h), h)

\* the Hash literal { k1 => v1, ... }: rb_hash_new and one rb_hash_aset each
RECURSIVE HashLit(_)
HashLit(ent) ==
    IF ent = <<>> THEN hash_alloc
    ELSE rb_hash_aset(HashLit(SubSeq(ent, 1, Len(ent) - 1)),
                      ent[Len(ent)][1], ent[Len(ent)][2]).h

\* the Hash given to update and replace: the receiver itself, or another Hash
\* with the entries ent, the default ifnone and the flag HASH_PROC_DEFAULT
Others == { <<>>, << <<2, 1>>, <<3, Qnil>> >> }

Arg(self, ent, ifnone, proc_default) ==
    [self |-> self, ent |-> ent, ifnone |-> ifnone, proc_default |-> proc_default]

Args == {Arg(TRUE, <<>>, Qnil, FALSE)} \cup {Arg(FALSE, e, Qnil, FALSE) : e \in Others}

\* to_hash: the Hash object of an argument that is not the receiver
to_hash(a) ==
    [HashLit(a.ent) EXCEPT !.ifnone = a.ifnone, !.proc_default = a.proc_default]

\* st_copy: a new table with the type, the capacity and the slots of the old
st_copy(t) ==
    [type |-> t.type, index |-> t.index, num_bins |-> t.num_bins,
     num_entries |-> t.num_entries, slots |-> t.slots]

\* rb_hash_s_create, Hash[...]: given one Hash (src), the new Hash gets a copy
\* of its table; given an array of pairs or a list of keys and values (ent),
\* one rb_hash_aset each
rb_hash_s_create(form, src, ent) ==
    IF form = "hash"
    THEN IF src.ntbl # 0
         THEN [hash_alloc EXCEPT !.ntbl = NewTable(src.ntbl), !.tbl = st_copy(src.tbl)]
         ELSE hash_alloc
    ELSE HashLit(ent)

\* rb_hash_update, called without a block; r.acc is the receiver after the
\* traversal of the other Hash
RetInto(r) == Ret(r.acc, IF r.err = "none" THEN "self" ELSE Qnil, r.err)

rb_hash_update(h, hash2) ==
    IF hash2.self
    THEN RetSelf(rb_hash_foreach(h, "rb_hash_update_i_self", 0))
    ELSE RetInto(rb_hash_foreach(to_hash(hash2), "rb_hash_update_i", h))

\* rb_hash_update with another Hash, with a block answering ans (block_given)
\* or without: the receiver, self returned, and the calls of the block
RetCalls(h, err, calls) ==
    Ret(h, Ans(IF err = "none" THEN "self" ELSE "raised", err, calls), err)

rb_hash_update_calls(r, block_given) ==
    IF block_given THEN RetCalls(r.acc.h, r.err, r.acc.calls)
    ELSE RetCalls(r.acc, r.err, <<>>)

rb_hash_update_any(h, hash2, block_given, ans) ==
    rb_hash_update_calls(
        IF block_given
        THEN rb_hash_foreach(to_hash(hash2), "rb_hash_update_block_i",
                             [h |-> h, blk |-> 0, ans |-> ans, calls |-> <<>>])
        ELSE rb_hash_foreach(to_hash(hash2), "rb_hash_update_i", h),
        block_given)

\* rb_hash_merge, its call of rb_hash_update without a block: hash1 is the
\* Hash the entries are stored into, h the Hash merged into it
rb_hash_merge(hash1, h) == rb_hash_foreach(h, "rb_hash_update_i", hash1)

\* rb_hash_replace that overwrites the receiver with hash2, flags included
rb_hash_replace_copy(h, hash2) ==
    IF hash2.self THEN Ret(h, "self", "none")
    ELSE Ret([HashLit(hash2.ent) EXCEPT !.iter_lev = h.iter_lev], "self", "none")

\* rb_hash_replace: rb_hash_clear (c), the traversal of hash2 with replace_i
\* (r), then ifnone and HASH_PROC_DEFAULT of hash2
rb_hash_replace_flags(r, hash2) ==
    IF r.err # "none" THEN Ret(r.acc, Qnil, r.err)
    ELSE Ret([r.acc EXCEPT !.ifnone = hash2.ifnone, !.proc_default = hash2.proc_default],
             "self", "none")

rb_hash_replace_fill(c, hash2) ==
    IF c.err # "none" THEN Ret(c.h, Qnil, c.err)
    ELSE rb_hash_replace_flags(rb_hash_foreach(to_hash(hash2), "rb_hash_update_i", c.h),
                               hash2)

rb_hash_replace(h, hash2) ==
    IF hash2.self THEN Ret(h, "self", "none")
    ELSE rb_hash_replace_fill(rb_hash_clear(h), hash2)

\* rb_hash_keys, rb_hash_values, rb_hash_to_a
rb_hash_keys(h)   == rb_hash_foreach(h, "keys_i", <<>>)
rb_hash_values(h) == rb_hash_foreach(h, "values_i", <<>>)
rb_hash_to_a(h)   == rb_hash_foreach(h, "to_a_i", <<>>)

\* rb_hash_key: the key found, nil when there is none
rb_hash_key(h, value) == rb_hash_foreach(h, "key_i", <<value, Qnil>>)

\* rb_hash_has_value
rb_hash_has_value(h, value) == rb_hash_foreach(h, "rb_hash_search_value", <<FALSE, value>>)

\* rb_hash_assoc: the pair found, <<>> for nil when there is none
rb_hash_assoc(h, obj) == rb_hash_foreach(h, "assoc_i", <<obj, <<>>>>)

\* rb_hash_invert: the entries of the new Hash
rb_hash_invert(h) == rb_hash_foreach(h, "rb_hash_invert_i", hash_alloc)

(***************************************************************************)
(* Traversals that call a Ruby block.  A frame of the stack is one         *)
(* rb_hash_foreach in progress:                                            *)
(*   op     the method (each, each_key, each_value, delete_if, reject!,    *)
(*          select)                                                        *)
(*   pc     "iter": st_foreach is about to look at slot pos;               *)
(*          "yield": the step function has called the block with key, val  *)
(*   tblp   the table address hash_foreach_iter saved before the call      *)
(*   bins   the table's structural generation before the call              *)
(*   n      num_entries saved by reject!                                   *)
(*   acc    the Hash select stores into                                    *)
(*   lev0   iter_lev when the method was called                            *)
(* result is what the last step handed back: the method (or "begin",       *)
(* "step", "return" for the steps of a traversal), the error raised, the   *)
(* value returned, and the number of slots hash_foreach_ensure removed.    *)
(***************************************************************************)
BlockOps == {"each", "each_key", "each_value", "delete_if", "reject_bang", "select"}

Top == stack[Len(stack)]

Pop == SubSeq(stack, 1, Len(stack) - 1)

\* a method may be called from the top level or from a running block
CanCall == IF stack = <<>> THEN TRUE ELSE Top.pc = "yield"

LiveEntries(h) ==
    LET live == SelectSeq(h.tbl.slots, LAMBDA sl : sl.key # Qundef) IN
    [i \in DOMAIN live |-> <<live[i].key, live[i].val>>]

Fits(h) == Len(h.tbl.slots) <= MaxSlots

NoTrace == [on |-> FALSE]

Init ==
    /\ hash = hash_alloc
    /\ stack = <<>>
    /\ result = [op |-> "new", err |-> "none", val |-> Qnil, swept |-> 0]
    /\ trace = NoTrace

\* the value handed back, as result keeps it: the specification of how
\* traversals end (its trace has runs) follows what is called and how it
\* ends, and keeps no value
Kept(val) == IF "runs" \in DOMAIN trace THEN Qnil ELSE val

\* a method without a block: the whole call is one step
Call(op, r) ==
    /\ CanCall
    /\ Fits(r.h)
    /\ hash' = r.h
    /\ result' = [op |-> op, err |-> r.err, val |-> Kept(r.val), swept |-> 0]
    /\ UNCHANGED stack

Store(vals) == \E k \in UserKeys, v \in vals : Call("aset", rb_hash_aset(hash, k, v))

Aset == Store(UserVals)

Delete == \E k \in UserKeys : Call("delete", rb_hash_delete(hash, k))

Shift == Call("shift", rb_hash_shift(hash))

Clear == Call("clear", rb_hash_clear(hash))

Rehash == Call("rehash", rb_hash_rehash(hash))

CompareById == Call("compare_by_identity", rb_hash_compare_by_id(hash))

SetDefault == \E v \in UserVals : Call("set_default", rb_hash_set_default(hash, v))

Update == \E a \in Args : Call("update", rb_hash_update(hash, a))

Replace == \E a \in Args : Call("replace", rb_hash_replace(hash, a))

Freeze ==
    /\ CanCall
    /\ ~hash.frozen
    /\ hash' = rb_hash_freeze(hash)
    /\ result' = [op |-> "freeze", err |-> "none", val |-> "self", swept |-> 0]
    /\ UNCHANGED stack

\* rb_hash_each_pair, rb_hash_each_key, rb_hash_each_value, rb_hash_delete_if,
\* rb_hash_reject_bang, rb_hash_select up to their rb_hash_foreach, and
\* rb_hash_foreach up to rb_ensure
Begin(op) ==
    /\ CanCall
    /\ Len(stack) < MaxNest
    /\ LET chk == IF op = "reject_bang" /\ hash.ntbl = 0 THEN Ret(hash, Qnil, "done")
                  ELSE IF op \in {"delete_if", "reject_bang"} THEN rb_hash_modify(hash)
                  ELSE Ret(hash, Qnil, "none")
           h1  == chk.h
       IN  IF chk.err = "done"
           THEN /\ result' = [op |-> op, err |-> "none", val |-> Qnil, swept |-> 0]
                /\ UNCHANGED <<hash, stack>>
           ELSE IF chk.err # "none"
           THEN /\ result' = [op |-> op, err |-> chk.err, val |-> Qnil, swept |-> 0]
                /\ UNCHANGED <<hash, stack>>
           ELSE IF h1.ntbl = 0
           THEN /\ result' = [op |-> op, err |-> "none",
                              val |-> Kept(IF op = "select" THEN <<>> ELSE "self"),
                              swept |-> 0]
                /\ UNCHANGED <<hash, stack>>
           ELSE /\ hash' = rb_hash_foreach_enter(h1)
                /\ stack' = Append(stack,
                       [op |-> op, pc |-> "iter", pos |-> 1, key |-> Qundef,
                        val |-> Qundef, tblp |-> 0, bins |-> 0,
                        n |-> IF op = "reject_bang" THEN h1.tbl.num_entries ELSE 0,
                        acc |-> hash_alloc, lev0 |-> h1.iter_lev])
                /\ result' = [op |-> "begin", err |-> "none", val |-> Kept(op), swept |-> 0]

\* the value the method returns after its traversal
Returned(f, h) ==
    CASE f.op = "select" -> LiveEntries(f.acc)
      [] f.op = "reject_bang" -> IF f.n = h.tbl.num_entries THEN Qnil ELSE "self"
      [] OTHER -> "self"

\* rb_hash_foreach calling hash_foreach_call without rb_ensure: an error
\* leaves the traversal without hash_foreach_ensure
Finish_plain(f, h, err) ==
    LET h1 == IF err \in {"none", "break"} THEN hash_foreach_ensure(h) ELSE h IN
    /\ hash' = h1
    /\ stack' = Pop
    /\ result' = [op |-> f.op, err |-> err,
                  val |-> IF err = "none" THEN Returned(f, h1) ELSE Qnil,
                  swept |-> Len(h.tbl.slots) - Len(h1.tbl.slots)]

\* the traversal of the top frame ends: hash_foreach_ensure runs, and the
\* method returns (err = "none" or "break") or the error propagates
Finish(f, h, err) ==
    /\ hash' = hash_foreach_ensure(h)
    /\ stack' = Pop
    /\ result' = [op |-> f.op, err |-> err,
                  val |-> IF err = "none" THEN Kept(Returned(f, hash_foreach_ensure(h)))
                          ELSE Qnil,
                  swept |-> Len(h.tbl.slots) - Len(hash_foreach_ensure(h).tbl.slots)]

\* st_foreach looks at the next slot: hash_foreach_iter passes over a slot
\* marked Qundef (and so would the step function), and otherwise calls the
\* step function, which calls the block
ForeachStep ==
    /\ stack # <<>>
    /\ Top.pc = "iter"
    /\ IF Top.pos > Len(hash.tbl.slots)
       THEN Finish(Top, hash, "none")
       ELSE LET sl == hash.tbl.slots[Top.pos] IN
            /\ stack' = [stack EXCEPT ![Len(stack)] =
                   IF IsDeleted(sl.key) \/ sl.key = Qundef
                   THEN [@ EXCEPT !.pos = @ + 1]
                   ELSE [@ EXCEPT !.pc = "yield", !.key = sl.key, !.val = sl.val,
                                  !.tblp = hash.ntbl, !.bins = hash.tbl.num_bins]]
            /\ result' = [op |-> "step", err |-> "none", val |-> Qnil, swept |-> 0]
            /\ UNCHANGED hash

\* delete_if_i with its test inverted: the entry is deleted when the block
\* answers false
StepFunc_inverted(f, h, b) ==
    IF f.op \in {"delete_if", "reject_bang"} /\ ~b
    THEN FnRet(rb_hash_delete_key(h, f.key).h, f.acc, "ST_CONTINUE", "none")
    ELSE IF f.op = "select" /\ b
    THEN FnRet(h, rb_hash_aset(f.acc, f.key, f.val).h, "ST_CONTINUE", "none")
    ELSE FnRet(h, f.acc, "ST_CONTINUE", "none")

\* select_i that stores the entry whatever the block answers
StepFunc_all(f, h, b) ==
    IF f.op \in {"delete_if", "reject_bang"} /\ b
    THEN FnRet(rb_hash_delete_key(h, f.key).h, f.acc, "ST_CONTINUE", "none")
    ELSE IF f.op = "select"
    THEN FnRet(h, rb_hash_aset(f.acc, f.key, f.val).h, "ST_CONTINUE", "none")
    ELSE FnRet(h, f.acc, "ST_CONTINUE", "none")

\* the rest of the step function once the block has returned b:
\* each_pair_i, each_key_i, each_value_i, delete_if_i, select_i
StepFunc(f, h, b) ==
    IF f.op \in {"delete_if", "reject_bang"} /\ b
    THEN FnRet(rb_hash_delete_key(h, f.key).h, f.acc, "ST_CONTINUE", "none")
    ELSE IF f.op = "select" /\ b
    THEN FnRet(h, rb_hash_aset(f.acc, f.key, f.val).h, "ST_CONTINUE", "none")
    ELSE FnRet(h, f.acc, "ST_CONTINUE", "none")

\* the block returns b: the step function finishes (r), hash_foreach_iter
\* checks the table (p) and st_foreach goes on, or the traversal fails
AfterPost(f1, p, b) ==
    IF p.ret = "RAISE" THEN Finish(f1, p.h, p.err)
    ELSE IF p.ret = "ST_STOP" THEN Finish(f1, p.h, "none")
    ELSE IF p.ret = "ST_CHECK" /\ st_foreach_modified(f1.bins, p.h.tbl)
         THEN Finish(f1, p.h, "hash modified during iteration")
    ELSE /\ hash' = p.h
         /\ stack' = [stack EXCEPT ![Len(stack)] =
                         [f1 EXCEPT !.pc = "iter", !.pos = @ + 1,
                                    !.key = Qundef, !.val = Qundef,
                                    !.tblp = 0, !.bins = 0]]
         /\ result' = [op |-> "return", err |-> "none", val |-> Kept(b), swept |-> 0]

AfterStep(f, r, b) ==
    AfterPost([f EXCEPT !.acc = r.acc],
              hash_foreach_iter_post(r.h, f.tblp, f.key, r.status), b)

BlockReturn ==
    /\ stack # <<>>
    /\ Top.pc = "yield"
    /\ \E b \in BOOLEAN : AfterStep(Top, StepFunc(Top, hash, b), b)

\* the block leaves the traversal by break or by raising: rb_ensure runs
\* hash_foreach_ensure on the way out
BlockExit ==
    /\ stack # <<>>
    /\ Top.pc = "yield"
    /\ \E e \in {"break", "raise"} : Finish(Top, hash, e)

(***************************************************************************)
(* The traversal protocol: the methods that add and remove entries,        *)
(* rehash, and each and delete_if with blocks that call any of them,       *)
(* nested up to MaxNest deep.                                              *)
(***************************************************************************)
TravOps == {"each", "delete_if"}

AsetOne == Store(TravVals)

Next ==
    \/ AsetOne /\ UNCHANGED trace
    \/ Delete /\ UNCHANGED trace
    \/ Shift /\ UNCHANGED trace
    \/ Clear /\ UNCHANGED trace
    \/ Rehash /\ UNCHANGED trace
    \/ (\E op \in TravOps : Begin(op)) /\ UNCHANGED trace
    \/ ForeachStep /\ UNCHANGED trace
    \/ BlockReturn /\ UNCHANGED trace
    \/ BlockExit /\ UNCHANGED trace

Spec == Init /\ [][Next]_vars

(***************************************************************************)
(* One traversal observed.  trace records, for a traversal started from    *)
(* the top level: the live entries at its start, the keys passed to the    *)
(* block in order, the keys the block answered true for, whether the block *)
(* called a method of the Hash, the keys of the start that were absent at  *)
(* some moment of the traversal, and how the traversal ended.              *)
(***************************************************************************)
KeysOf(ent) == [i \in DOMAIN ent |-> ent[i][1]]

Range(seq) == {seq[i] : i \in DOMAIN seq}

Absent(h, ent) == {k \in Range(KeysOf(ent)) : ~rb_hash_has_key(h, k)}

Observe ==
    trace' =
      IF stack = <<>> /\ stack' # <<>>
      THEN [on |-> TRUE, op |-> stack'[1].op, start |-> LiveEntries(hash'),
            seen |-> <<>>, hits |-> {}, calls |-> FALSE, gone |-> {},
            done |-> FALSE, err |-> "none"]
      ELSE IF stack = <<>> THEN NoTrace
      ELSE IF stack' = <<>>
           THEN [trace EXCEPT !.done = TRUE, !.err = result'.err,
                              !.gone = @ \cup Absent(hash, trace.start)]
      ELSE IF Len(stack) = 1 /\ Len(stack') = 1 /\ stack[1].pc = "iter"
           THEN IF stack'[1].pc = "yield"
                THEN [trace EXCEPT !.seen = Append(@, stack'[1].key)]
                ELSE trace
      ELSE IF Len(stack) = 1 /\ Len(stack') = 1 /\ stack'[1].pc = "iter"
           THEN [trace EXCEPT !.hits = IF result'.val THEN @ \cup {stack[1].key} ELSE @,
                              !.gone = @ \cup Absent(hash', trace.start)]
      ELSE [trace EXCEPT !.calls = TRUE,
                         !.gone = @ \cup Absent(hash', trace.start)]

\* each and delete_if from the top level, with blocks that call the methods
\* that add and remove entries
BeginOuter(op) == stack = <<>> /\ Begin(op)

NextObs ==
    \/ AsetOne /\ Observe
    \/ Delete /\ Observe
    \/ Shift /\ Observe
    \/ Clear /\ Observe
    \/ (\E op \in TravOps : BeginOuter(op)) /\ Observe
    \/ ForeachStep /\ Observe
    \/ BlockReturn /\ Observe
    \/ BlockExit /\ Observe

SpecObs == Init /\ [][NextObs]_vars

(***************************************************************************)
(* The views of the Hash.  A block, or the top level, asks for the keys,   *)
(* the values, the pairs, the inverted Hash, the key of a value, the pair  *)
(* of a key, whether a value or a key is present, the value of a key, and  *)
(* merges the Hash into an empty one.  result.val is <<argument, answer>>. *)
(***************************************************************************)
QueryOps == {"keys", "values", "to_a", "invert", "key", "assoc", "has_value",
             "merge", "aref", "has_key"}

\* the Hash after the method and the value the method returns: the array
\* collected, the entries of the new Hash, or one of the args of the search
QAcc(a, r) == [h |-> r.h, val |-> <<a, r.acc>>]

QEnt(r) == [h |-> r.h, val |-> <<Qnil, LiveEntries(r.acc)>>]

QSel(a, r, i) == [h |-> r.h, val |-> <<a, r.acc[i]>>]

QueryVal(q, h, k, v) ==
    CASE q = "keys"      -> QAcc(Qnil, rb_hash_keys(h))
      [] q = "values"    -> QAcc(Qnil, rb_hash_values(h))
      [] q = "to_a"      -> QAcc(Qnil, rb_hash_to_a(h))
      [] q = "invert"    -> QEnt(rb_hash_invert(h))
      [] q = "merge"     -> QEnt(rb_hash_merge(hash_alloc, h))
      [] q = "key"       -> QSel(v, rb_hash_key(h, v), 2)
      [] q = "has_value" -> QSel(v, rb_hash_has_value(h, v), 1)
      [] q = "assoc"     -> QSel(k, rb_hash_assoc(h, k), 2)
      [] q = "aref"      -> [h |-> h, val |-> <<k, rb_hash_aref(h, k).val>>]
      [] q = "has_key"   -> [h |-> h, val |-> <<k, rb_hash_has_key(h, k)>>]

Answer(q, qv) ==
    /\ hash' = qv.h
    /\ result' = [op |-> q, err |-> "none", val |-> qv.val, swept |-> 0]

Query ==
    /\ CanCall
    /\ \E q \in QueryOps, k \in UserKeys, v \in TravVals : Answer(q, QueryVal(q, hash, k, v))
    /\ UNCHANGED stack

ViewOps == {"each", "each_key", "each_value", "select", "delete_if"}

NextView ==
    \/ AsetOne /\ UNCHANGED trace
    \/ Delete /\ UNCHANGED trace
    \/ Shift /\ UNCHANGED trace
    \/ Clear /\ UNCHANGED trace
    \/ Query /\ UNCHANGED trace
    \/ (\E op \in ViewOps : BeginOuter(op)) /\ UNCHANGED trace
    \/ ForeachStep /\ UNCHANGED trace
    \/ BlockReturn /\ UNCHANGED trace
    \/ BlockExit /\ UNCHANGED trace

SpecView == Init /\ [][NextView]_vars

(***************************************************************************)
(* The methods that modify the Hash, called from the top level on a Hash   *)
(* that may be frozen; the blocks of each, delete_if and reject! only      *)
(* answer, break or raise.                                                 *)
(***************************************************************************)
MethodOps == {"each", "delete_if", "reject_bang"}

TopLevel == stack = <<>> /\ UNCHANGED trace

NextMethods ==
    \/ AsetOne /\ TopLevel
    \/ Delete /\ TopLevel
    \/ Shift /\ TopLevel
    \/ Clear /\ TopLevel
    \/ Rehash /\ TopLevel
    \/ CompareById /\ TopLevel
    \/ SetDefault /\ TopLevel
    \/ Update /\ TopLevel
    \/ Replace /\ TopLevel
    \/ Freeze /\ TopLevel
    \/ (\E op \in MethodOps : BeginOuter(op)) /\ UNCHANGED trace
    \/ ForeachStep /\ UNCHANGED trace
    \/ BlockReturn /\ UNCHANGED trace
    \/ BlockExit /\ UNCHANGED trace

SpecMethods == Init /\ [][NextMethods]_vars

(***************************************************************************)
(* The comparator.  Keys 3 and 4 are two String objects with the same      *)
(* contents, and both are given as keys here.  compare_by_identity, []=,   *)
(* [] and has_key? are called from the top level and from the blocks of    *)
(* each; update is called from the top level with a block that may call    *)
(* compare_by_identity, []= and delete, answers the value the receiver has *)
(* and raises for one key, and is followed entry by entry of its argument: *)
(* its frame holds the entries of the argument (hash2), the index of the   *)
(* one it is at (pos), the key the block raises for (blk), the arguments   *)
(* of the call of the block in progress (key, oldval, val), the number of  *)
(* methods the block has called (calls) and the receiver as it was when    *)
(* update was called (before).  Hashes are created with                    *)
(* Hash.new and Hash[...], the latter from pairs or from the Hash at hand. *)
(* result.val is <<key, answer>> for []=, [] and has_key?, and the new     *)
(* Hash for a creation.                                                    *)
(***************************************************************************)
IdentKeys == {1, 3, 4}

Keyed(k, r) == Ret(r.h, <<k, r.val>>, r.err)

AsetKey ==
    \E k \in IdentKeys, v \in TravVals : Call("aset", Keyed(k, rb_hash_aset(hash, k, v)))

Lookup ==
    \E k \in IdentKeys :
        \/ Call("aref", Ret(hash, <<k, rb_hash_aref(hash, k).val>>, "none"))
        \/ Call("has_key", Ret(hash, <<k, rb_hash_has_key(hash, k)>>, "none"))

\* the blocks given to update: the key they raise for, 0 for none
BlockRaises == {0, 2, 4}

\* rb_hash_update with a block and another Hash, up to rb_hash_foreach: the
\* entries of hash2 are met in their order
UpdateBlockBegin ==
    /\ stack = <<>>
    /\ \E a \in Args, blk \in BlockRaises :
          /\ ~a.self
          /\ stack' = << [op |-> "update_block", pc |-> "merge", pos |-> 1,
                          hash2 |-> LiveEntries(to_hash(a)), blk |-> blk,
                          ans |-> "old", key |-> Qundef, val |-> Qundef,
                          oldval |-> Qundef, before |-> hash, calls |-> 0] >>
    /\ result' = [op |-> "begin", err |-> "none", val |-> "update_block", swept |-> 0]
    /\ UNCHANGED hash

\* rb_hash_update returns hash1, or an error leaves it
UpdateBlockEnd(f, err) ==
    /\ stack' = Pop
    /\ result' = [op |-> "update_block", err |-> err,
                  val |-> IF err = "none" THEN "self" ELSE Qnil, swept |-> 0]
    /\ UNCHANGED hash

\* rb_hash_aset of rb_hash_update_block_i has answered a
UpdateBlockSet(f, a) ==
    IF a.err # "none" THEN UpdateBlockEnd(f, a.err)
    ELSE /\ Fits(a.h)
         /\ hash' = a.h
         /\ stack' = << [f EXCEPT !.pc = "merge", !.pos = @ + 1, !.key = Qundef,
                                  !.val = Qundef, !.oldval = Qundef] >>
         /\ result' = [op |-> "step", err |-> "none", val |-> Qnil, swept |-> 0]

\* one call of rb_hash_update_block_i by rb_hash_foreach, up to the call of
\* the block for a key the receiver has
UpdateBlockStep ==
    /\ stack # <<>>
    /\ Top.pc = "merge"
    /\ IF Top.pos > Len(Top.hash2) THEN UpdateBlockEnd(Top, "none")
       ELSE IF rb_hash_has_key(hash, Top.hash2[Top.pos][1])
       THEN /\ stack' = << [Top EXCEPT !.pc = "resolve",
                                       !.key = Top.hash2[Top.pos][1],
                                       !.val = Top.hash2[Top.pos][2],
                                       !.oldval = rb_hash_aref(hash, Top.hash2[Top.pos][1]).val] >>
            /\ result' = [op |-> "yield", err |-> "none",
                          val |-> Top.hash2[Top.pos][1], swept |-> 0]
            /\ UNCHANGED hash
       ELSE UpdateBlockSet(Top, rb_hash_aset(hash, Top.hash2[Top.pos][1],
                                            Top.hash2[Top.pos][2]))

\* the block of update raises, or answers and rb_hash_aset stores the answer
UpdateBlockReturn ==
    /\ stack # <<>>
    /\ Top.pc = "resolve"
    /\ IF Top.blk = Top.key THEN UpdateBlockEnd(Top, "raise")
       ELSE UpdateBlockSet(Top, rb_hash_aset(hash, Top.key,
                                    rb_yield_values(Top.ans, Top.key, Top.oldval, Top.val)))

\* a method called from the block of update, which calls up to
\* MaxBlockCalls methods during one update
InBlock(op, r) ==
    /\ stack # <<>>
    /\ Top.pc = "resolve"
    /\ Top.calls < MaxBlockCalls
    /\ Fits(r.h)
    /\ hash' = r.h
    /\ stack' = << [Top EXCEPT !.calls = @ + 1] >>
    /\ result' = [op |-> op, err |-> r.err, val |-> r.val, swept |-> 0]

UpdateBlockCall ==
    \/ \E k \in IdentKeys : InBlock("delete", rb_hash_delete(hash, k))
    \/ \E k \in IdentKeys, v \in TravVals :
          InBlock("aset", Keyed(k, rb_hash_aset(hash, k, v)))
    \/ InBlock("compare_by_identity", rb_hash_compare_by_id(hash))

\* rb_hash_new, or rb_hash_s_create
NewHash(form, src, ent) ==
    IF form = "new" THEN hash_alloc ELSE rb_hash_s_create(form, src, ent)

Create ==
    /\ stack = <<>>
    /\ \E form \in {"new", "hash", "pairs"}, ent \in Others :
          result' = [op |-> "create", err |-> "none",
                     val |-> NewHash(form, hash, ent), swept |-> 0]
    /\ UNCHANGED <<hash, stack>>

NextIdentity ==
    \/ AsetKey /\ UNCHANGED trace
    \/ Lookup /\ UNCHANGED trace
    \/ CompareById /\ UNCHANGED trace
    \/ Delete /\ TopLevel
    \/ Clear /\ TopLevel
    \/ Rehash /\ TopLevel
    \/ SetDefault /\ TopLevel
    \/ Update /\ TopLevel
    \/ UpdateBlockBegin /\ UNCHANGED trace
    \/ UpdateBlockStep /\ UNCHANGED trace
    \/ UpdateBlockReturn /\ UNCHANGED trace
    \/ UpdateBlockCall /\ UNCHANGED trace
    \/ Replace /\ TopLevel
    \/ Create /\ UNCHANGED trace
    \/ BeginOuter("each") /\ UNCHANGED trace
    \/ ForeachStep /\ UNCHANGED trace
    \/ BlockReturn /\ UNCHANGED trace
    \/ BlockExit /\ UNCHANGED trace

SpecIdentity == Init /\ [][NextIdentity]_vars

(***************************************************************************)
(* The default.  The Hash is initialized, again or for the first time,     *)
(* with a value or with a block; default=, replace (with Hashes that have  *)
(* a default value, a default proc or neither), update, clear, rehash, []= *)
(* and delete (with and without a block) are called; and [] and fetch are  *)
(* asked for keys.  result.val is [key, argc, if_none, block_given, ans,   *)
(* before] for [], fetch and delete, ans                                   *)
(* being what the method handed back and before the Hash as it was when    *)
(* the method was called.                                                  *)
(***************************************************************************)
ArgsDefault ==
    Args \cup {Arg(FALSE, <<>>, 1, FALSE), Arg(FALSE, <<>>, DefaultProc, TRUE)}

Initialize ==
    \E argc \in {0, 1}, v \in UserVals, bg \in BOOLEAN :
        Call("initialize", rb_hash_initialize(hash, argc, IF argc = 0 THEN Qnil ELSE v, bg))

ReplaceDefault == \E a \in ArgsDefault : Call("replace", rb_hash_replace(hash, a))

Asked(key, argc, if_none, bg, ans) ==
    Ret(hash, [key |-> key, argc |-> argc, if_none |-> if_none, block_given |-> bg,
               ans |-> ans, before |-> hash], ans.err)

Aref ==
    \E k \in UserKeys :
        Call("aref", [Asked(k, 1, Qnil, FALSE, rb_hash_aref(hash, k))
                          EXCEPT !.h = rb_hash_aref_hash(hash, k)])

Fetch ==
    \E k \in UserKeys, argc \in {1, 2}, v \in UserVals, bg \in BOOLEAN :
        /\ argc = 1 => v = Qnil
        /\ Call("fetch", Asked(k, argc, v, bg, rb_hash_fetch(hash, k, argc, v, bg)))

DeleteAsked ==
    \E k \in UserKeys, bg \in BOOLEAN :
        Call("delete", [Asked(k, 1, Qnil, bg, rb_hash_delete_block(hash, k, bg).val)
                            EXCEPT !.h = rb_hash_delete_block(hash, k, bg).h])

NextDefault ==
    \/ Initialize /\ UNCHANGED trace
    \/ SetDefault /\ UNCHANGED trace
    \/ ReplaceDefault /\ UNCHANGED trace
    \/ Update /\ UNCHANGED trace
    \/ Clear /\ UNCHANGED trace
    \/ Rehash /\ UNCHANGED trace
    \/ Aset /\ UNCHANGED trace
    \/ DeleteAsked /\ UNCHANGED trace
    \/ Aref /\ UNCHANGED trace
    \/ Fetch /\ UNCHANGED trace

SpecDefault == Init /\ [][NextDefault]_vars

(***************************************************************************)
(* The entries and their order.  []=, delete (with and without a block),   *)
(* shift and clear are called from the top level with keys 1, 2, 3 and     *)
(* values 1, 2, and each is called with a block that calls nothing.        *)
(* update is called with a block that answers one of the two values it is  *)
(* given and calls nothing, or without a block.                            *)
(* result.val is [args, ans, before]: the arguments of the call, what the  *)
(* method handed back, and the Hash as it was when the method was called.  *)
(* trace is kept beside the Hash from the arguments of the calls alone:    *)
(* order lists the keys in the order in which each was last added, gone is *)
(* the set of keys that have been removed at some time.                    *)
(***************************************************************************)
PairVals == {1, 2}

\* the key object under which rb_hash_aset stores a new key
KeyStored(key) == IF key \in Strings THEN rb_str_new4(key) ELSE key

Given(args, r) == Ret(r.h, [args |-> args, ans |-> r.val, before |-> hash], r.err)

Without(seq, key) == SelectSeq(seq, LAMBDA x : x # key)

Added(seq, key) == IF key \in Range(seq) THEN seq ELSE Append(seq, key)

Noted(order, gone) == trace' = [order |-> order, gone |-> gone]

InitPairs ==
    /\ hash = hash_alloc
    /\ stack = <<>>
    /\ result = [op |-> "new", err |-> "none", val |-> Qnil, swept |-> 0]
    /\ trace = [order |-> <<>>, gone |-> {}]

AsetPair ==
    \E k \in UserKeys, v \in PairVals :
        /\ stack = <<>>
        /\ Call("aset", Given([key |-> k, val |-> v], rb_hash_aset(hash, k, v)))
        /\ Noted(Added(trace.order, KeyStored(k)), trace.gone)

DeletePair ==
    \E k \in UserKeys, bg \in BOOLEAN :
        /\ stack = <<>>
        /\ Call("delete", Given([key |-> k, block_given |-> bg],
                                rb_hash_delete_block(hash, k, bg)))
        /\ Noted(Without(trace.order, KeyStored(k)),
                 trace.gone \cup (Range(trace.order) \cap {KeyStored(k)}))

ShiftPair ==
    /\ stack = <<>>
    /\ Call("shift", Given([key |-> Qnil], rb_hash_shift(hash)))
    /\ Noted(IF trace.order = <<>> THEN <<>> ELSE Tail(trace.order),
             IF trace.order = <<>> THEN trace.gone ELSE trace.gone \cup {Head(trace.order)})

ClearPair ==
    /\ stack = <<>>
    /\ Call("clear", Given([key |-> Qnil], rb_hash_clear(hash)))
    /\ Noted(<<>>, trace.gone \cup Range(trace.order))

\* the Hashes given to update, and the blocks given with them ("none": no
\* block)
PairOthers == { << <<2, 3>>, <<3, 4>> >>, << <<3, 1>>, <<1, 2>> >> }

Resolvers == {"none", "old", "new"}

RECURSIVE AddedAll(_, _)
AddedAll(seq, keys) ==
    IF keys = <<>> THEN seq ELSE AddedAll(Added(seq, KeyStored(keys[1])), Tail(keys))

UpdatePair ==
    \E ent \in PairOthers, res \in Resolvers :
        /\ stack = <<>>
        /\ Call("update", Given([other |-> ent, resolver |-> res],
                                rb_hash_update_any(hash, Arg(FALSE, ent, Qnil, FALSE),
                                                   res # "none", res)))
        /\ Noted(AddedAll(trace.order, KeysOf(ent)), trace.gone)

\* rb_hash_invert: the receiver after the traversal, and the new Hash returned
rb_hash_invert_ret(r) == Ret(r.h, r.acc, r.err)

InvertPair ==
    /\ stack = <<>>
    /\ Call("invert", Given([key |-> Qnil], rb_hash_invert_ret(rb_hash_invert(hash))))
    /\ UNCHANGED trace

NextPairs ==
    \/ AsetPair
    \/ DeletePair
    \/ ShiftPair
    \/ ClearPair
    \/ UpdatePair
    \/ InvertPair
    \/ BeginOuter("each") /\ UNCHANGED trace
    \/ ForeachStep /\ UNCHANGED trace
    \/ BlockReturn /\ UNCHANGED trace
    \/ BlockExit /\ UNCHANGED trace

SpecPairs == InitPairs /\ [][NextPairs]_vars

(***************************************************************************)
(* select, delete_if and reject! watched.  The Hash is made by Hash.new,   *)
(* Hash.new(1) or Hash.new with a block; []= and shift are called from the *)
(* top level and from the blocks of the three methods.  trace records, for *)
(* a traversal started from the top level: the Hash at its start, the      *)
(* entries the block answered true for, in order, whether the block called *)
(* a method of the Hash, and whether the traversal is over.  result.val of *)
(* shift is [args, ans, before].                                           *)
(***************************************************************************)
BlockMethods == {"select", "delete_if", "reject_bang"}

InitBlocks ==
    /\ hash \in {hash_alloc,
                  rb_hash_initialize(hash_alloc, 1, 1, FALSE).h,
                  rb_hash_initialize(hash_alloc, 0, Qnil, TRUE).h}
    /\ stack = <<>>
    /\ result = [op |-> "new", err |-> "none", val |-> Qnil, swept |-> 0]
    /\ trace = NoTrace

ShiftGiven == Call("shift", Given([key |-> Qnil], rb_hash_shift(hash)))

Watch ==
    trace' =
      IF stack = <<>> /\ stack' # <<>>
      THEN [on |-> TRUE, op |-> stack'[1].op, start |-> hash, picked |-> <<>>,
            calls |-> FALSE, done |-> FALSE]
      ELSE IF stack = <<>> THEN NoTrace
      ELSE IF stack' = <<>> THEN [trace EXCEPT !.done = TRUE]
      ELSE IF stack[1].pc = "iter" THEN trace
      ELSE IF stack'[1].pc = "iter"
           THEN [trace EXCEPT !.picked = IF result'.val
                                         THEN Append(@, <<stack[1].key, stack[1].val>>)
                                         ELSE @]
      ELSE [trace EXCEPT !.calls = TRUE]

NextBlocks ==
    \/ AsetOne /\ Watch
    \/ ShiftGiven /\ Watch
    \/ (\E op \in BlockMethods : BeginOuter(op)) /\ Watch
    \/ ForeachStep /\ Watch
    \/ BlockReturn /\ Watch
    \/ BlockExit /\ Watch

SpecBlocks == InitBlocks /\ [][NextBlocks]_vars

(***************************************************************************)
(* The table of the Hash.  Blocks of each and delete_if call the methods   *)
(* that could put another table in the place of the one being traversed:   *)
(* rehash, compare_by_identity and replace, besides []=, delete, shift and *)
(* clear.                                                                  *)
(***************************************************************************)
NextTable ==
    \/ AsetOne /\ UNCHANGED trace
    \/ Delete /\ UNCHANGED trace
    \/ Shift /\ UNCHANGED trace
    \/ Clear /\ UNCHANGED trace
    \/ Rehash /\ UNCHANGED trace
    \/ CompareById /\ UNCHANGED trace
    \/ Replace /\ UNCHANGED trace
    \/ (\E op \in TravOps : BeginOuter(op)) /\ UNCHANGED trace
    \/ ForeachStep /\ UNCHANGED trace
    \/ BlockReturn /\ UNCHANGED trace
    \/ BlockExit /\ UNCHANGED trace

SpecTable == Init /\ [][NextTable]_vars

(***************************************************************************)
(* Traversals whose blocks only answer, break, raise, delete entries or    *)
(* start traversals of the same kind.  Entries are stored from the top     *)
(* level only.  trace.frames holds, for each traversal in progress, the    *)
(* keys that were live when it started (start), the keys it has passed to  *)
(* its block (seen), the keys of the start that have been absent at some   *)
(* moment since (dead), and whether a key was passed to the block after it *)
(* had been absent (late); trace.last holds this for the traversal that    *)
(* ended last, and how it ended.                                           *)
(***************************************************************************)
Ghost(h) ==
    [start |-> KeysOf(LiveEntries(h)), seen |-> <<>>, dead |-> {}, late |-> FALSE]

MarkDead(g, h) ==
    [g EXCEPT !.dead = @ \cup {k \in Range(g.start) : ~rb_hash_has_key(h, k)}]

MarkAll(frames, h) == [i \in DOMAIN frames |-> MarkDead(frames[i], h)]

Passed(g, key) ==
    [g EXCEPT !.seen = Append(@, key), !.late = @ \/ key \in g.dead]

NoLast == [on |-> FALSE]

Counted ==
    trace' =
      IF Len(stack') > Len(stack)
      THEN [frames |-> Append(trace.frames, Ghost(hash')), last |-> NoLast]
      ELSE IF Len(stack') < Len(stack)
      THEN [frames |-> MarkAll(SubSeq(trace.frames, 1, Len(stack')), hash'),
            last |-> [on |-> TRUE, err |-> result'.err,
                      g |-> MarkDead(trace.frames[Len(stack)], hash')]]
      ELSE IF stack # <<>> /\ Top.pc = "iter" /\ stack'[Len(stack')].pc = "yield"
      THEN [frames |-> [trace.frames EXCEPT ![Len(stack)] =
                           Passed(@, stack'[Len(stack')].key)],
            last |-> NoLast]
      ELSE [frames |-> MarkAll(trace.frames, hash'), last |-> NoLast]

InitTrav ==
    /\ hash = hash_alloc
    /\ stack = <<>>
    /\ result = [op |-> "new", err |-> "none", val |-> Qnil, swept |-> 0]
    /\ trace = [frames |-> <<>>, last |-> NoLast]

NextTrav ==
    \/ AsetOne /\ stack = <<>> /\ Counted
    \/ Delete /\ Counted
    \/ (\E op \in TravOps : Begin(op)) /\ Counted
    \/ ForeachStep /\ Counted
    \/ BlockReturn /\ Counted
    \/ BlockExit /\ Counted

SpecTrav == InitTrav /\ [][NextTrav]_vars

(***************************************************************************)
(* The same traversals under the assumptions that st_foreach goes on as    *)
(* long as there are slots and that a block does not go on for ever: a     *)
(* block that is called again and again returns at some time.  trace.runs  *)
(* holds, for each traversal in progress, the number of live entries at    *)
(* its start (n0) and the number of calls of its block (steps);            *)
(* trace.last is the method of the last step and how it ended.             *)
(***************************************************************************)
Stepped ==
    trace' =
      [runs |-> IF Len(stack') > Len(stack)
                THEN Append(trace.runs, [n0 |-> rb_hash_size(hash'), steps |-> 0])
                ELSE IF Len(stack') < Len(stack)
                THEN SubSeq(trace.runs, 1, Len(stack'))
                ELSE IF stack # <<>> /\ Top.pc = "iter" /\ stack'[Len(stack')].pc = "yield"
                THEN [trace.runs EXCEPT ![Len(stack)].steps = @ + 1]
                ELSE trace.runs,
       last |-> <<result'.op, result'.err>>]

InitLive ==
    /\ hash = hash_alloc
    /\ stack = <<>>
    /\ result = [op |-> "new", err |-> "none", val |-> Qnil, swept |-> 0]
    /\ trace = [runs |-> <<>>, last |-> <<"new", "none">>]

\* the block of the traversal at depth d returns
BlockReturns(d) == Len(stack) = d /\ BlockReturn /\ Stepped

NextLive ==
    \/ AsetOne /\ stack = <<>> /\ Stepped
    \/ Delete /\ Stepped
    \/ (\E op \in TravOps : Begin(op)) /\ Stepped
    \/ ForeachStep /\ Stepped
    \/ BlockReturn /\ Stepped
    \/ BlockExit /\ Stepped

\* every step of a traversal changes the stack
moves == <<hash, stack>>

SpecLive ==
    /\ InitLive
    /\ [][NextLive]_vars
    /\ WF_moves(ForeachStep /\ Stepped)
    /\ \A d \in 1..MaxNest : SF_moves(BlockReturns(d))

(***************************************************************************)
(* ENV.  The environment is the array environ of "name=value" strings.     *)
(* trace is the environment: environ, the entries of the array in order,   *)
(* and orig, whether environ is still the array the process was started    *)
(* with (origenviron).  ruby_setenv is the one that works on environ       *)
(* itself.  A frame of the stack is one env_select in progress:            *)
(*   pc     "iter": the loop is about to read *env; "yield": the block has *)
(*          been called with key and val                                   *)
(*   pos    how far env has been advanced, from 1                          *)
(*   where  the array env points into: "environ", the array in use;        *)
(*          "origenviron", the array of the start, which ruby_setenv has   *)
(*          left for a copy; "freed", an array that REALLOC_N has moved    *)
(*   old    the entries of that array when it is not the one in use        *)
(*   start  the names in the environment when env_select was called        *)
(*   seen   the names the block has been called with, in order             *)
(* hash is the Hash env_select fills.  Names are frozen Strings: 4 is the  *)
(* frozen String of the model, 1 and 2 stand for two more, stored as keys  *)
(* as they are.  ENV[]=, ENV.delete, ENV.clear, ENV.shift and              *)
(* ruby_unsetenv are called from the top level and from the block.         *)
(***************************************************************************)
EnvNames == {1, 2, 4}

EnvVals == {1}

MaxReads == 3

EnvEntry(name, value) == [name |-> name, val |-> value]

EnvNamesOf(environ) == [i \in DOMAIN environ |-> environ[i].name]

\* envix: the place of the name in environ, or the place of the terminator
envix(environ, name) ==
    IF \E i \in DOMAIN environ : environ[i].name = name
    THEN CHOOSE i \in DOMAIN environ : environ[i].name = name
    ELSE Len(environ) + 1

\* getenv: the value of the name, nil (NULL) when there is none
getenv(environ, name) ==
    IF envix(environ, name) <= Len(environ) THEN environ[envix(environ, name)].val
    ELSE Qnil

\* ruby_setenv(name, value), value nil (NULL) to unset: the array in use
\* afterwards, whether it is a copy made because environ was origenviron,
\* and whether REALLOC_N was called to add an entry
EnvSet(environ, copied, grown) ==
    [environ |-> environ, orig |-> FALSE, copied |-> copied, grown |-> grown]

ruby_setenv_at(e, i, name, value) ==
    IF i <= Len(e.environ)
    THEN IF value = Qnil
         THEN EnvSet(SeqRemove(e.environ, i), e.orig, FALSE)
         ELSE EnvSet([e.environ EXCEPT ![i] = EnvEntry(name, value)], e.orig, FALSE)
    ELSE IF value = Qnil
         THEN EnvSet(e.environ, e.orig, FALSE)
         ELSE EnvSet(Append(e.environ, EnvEntry(name, value)), e.orig, TRUE)

ruby_setenv(e, name, value) == ruby_setenv_at(e, envix(e.environ, name), name, value)

\* a String object with an embedded NUL: read as a C string it ends at the
\* NUL, so strlen(RSTRING_PTR(s)) differs from RSTRING_LEN(s)
BadStrings == {5}

\* RSTRING_PTR read as a C string: the String 5 is the String 1 followed by
\* a NUL and more
RSTRING_PTR(s) == IF s \in BadStrings THEN 1 ELSE s

\* strlen(RSTRING_PTR(s)) != RSTRING_LEN(s)
HasNul(s) == s \in BadStrings

\* the environment left as it is
EnvSame(e) == [environ |-> e.environ, orig |-> e.orig, copied |-> FALSE, grown |-> FALSE]

\* what a method of ENV answers: the environment afterwards (r), the value
\* returned, the error raised, and the calls of getenv and ruby_setenv it
\* made, each <<function, name, value>>
EnvRet(r, val, err, calls) ==
    [environ |-> r.environ, orig |-> r.orig, copied |-> r.copied, grown |-> r.grown,
     val |-> val, err |-> err, calls |-> calls]

OsGet(name) == <<"getenv", name, Qnil>>

OsSet(name, value) == <<"ruby_setenv", name, value>>

\* env_aset with the test of the name left out
env_aset_unchecked(e, nm, val) ==
    IF val = Qnil
    THEN EnvRet(EnvSame(e), Qnil, "cannot assign nil; use Hash#delete instead", <<>>)
    ELSE IF HasNul(val)
    THEN EnvRet(EnvSame(e), Qnil, "bad environment variable value", <<>>)
    ELSE EnvRet(ruby_setenv(e, RSTRING_PTR(nm), RSTRING_PTR(val)), val, "none",
                <<OsSet(RSTRING_PTR(nm), RSTRING_PTR(val))>>)

\* env_aset
env_aset(e, nm, val) ==
    IF val = Qnil
    THEN EnvRet(EnvSame(e), Qnil, "cannot assign nil; use Hash#delete instead", <<>>)
    ELSE IF HasNul(nm)
    THEN EnvRet(EnvSame(e), Qnil, "bad environment variable name", <<>>)
    ELSE IF HasNul(val)
    THEN EnvRet(EnvSame(e), Qnil, "bad environment variable value", <<>>)
    ELSE EnvRet(ruby_setenv(e, RSTRING_PTR(nm), RSTRING_PTR(val)), val, "none",
                <<OsSet(RSTRING_PTR(nm), RSTRING_PTR(val))>>)

\* env_delete: ruby_setenv(nam, 0) when getenv finds the name
env_delete(e, name) ==
    IF HasNul(name)
    THEN EnvRet(EnvSame(e), Qnil, "bad environment variable name", <<>>)
    ELSE IF getenv(e.environ, RSTRING_PTR(name)) # Qnil
    THEN EnvRet(ruby_setenv(e, RSTRING_PTR(name), Qnil),
                getenv(e.environ, RSTRING_PTR(name)), "none",
                <<OsGet(RSTRING_PTR(name)), OsSet(RSTRING_PTR(name), Qnil)>>)
    ELSE EnvRet(EnvSame(e), Qnil, "none", <<OsGet(RSTRING_PTR(name))>>)

\* rb_f_getenv
rb_f_getenv(e, name) ==
    IF HasNul(name)
    THEN EnvRet(EnvSame(e), Qnil, "bad environment variable name", <<>>)
    ELSE EnvRet(EnvSame(e), getenv(e.environ, RSTRING_PTR(name)), "none",
                <<OsGet(RSTRING_PTR(name))>>)

\* env_keys
env_keys(environ) == [i \in DOMAIN environ |-> environ[i].name]

\* ruby_unsetenv
ruby_unsetenv(e, name) == ruby_setenv(e, name, Qnil)

\* a method that has answered a so far goes on with a call that answers r,
\* and val is what it is to return
EnvThen(a, r, val) ==
    [environ |-> r.environ, orig |-> r.orig, copied |-> a.copied \/ r.copied,
     grown |-> a.grown \/ r.grown, val |-> val, err |-> r.err,
     calls |-> a.calls \o r.calls]

\* rb_env_clear from the name at i of the Array keys on: rb_f_getenv, and
\* env_delete when the name is still set; ENV is written 1
RECURSIVE rb_env_clear_from(_, _, _)
rb_env_clear_from(a, keys, i) ==
    IF i > Len(keys) THEN a
    ELSE rb_env_clear_from(
             IF rb_f_getenv(a, keys[i]).val # Qnil
             THEN EnvThen(EnvThen(a, rb_f_getenv(a, keys[i]), 1), env_delete(a, keys[i]), 1)
             ELSE EnvThen(a, rb_f_getenv(a, keys[i]), 1),
             keys, i + 1)

\* rb_env_clear: keys = env_keys(), then the loop over keys
rb_env_clear(e) ==
    rb_env_clear_from(EnvRet(EnvSame(e), 1, "none", <<>>), env_keys(e.environ), 1)

\* env_shift: the first variable of environ is deleted and answered as
\* [name, value]; nil when there is none
env_shift(e) ==
    IF e.environ = <<>> THEN EnvRet(EnvSame(e), Qnil, "none", <<>>)
    ELSE EnvThen(EnvRet(EnvSame(e), Qnil, "none", <<OsGet(e.environ[1].name)>>),
                 env_delete(e, e.environ[1].name),
                 <<e.environ[1].name, getenv(e.environ, e.environ[1].name)>>)

\* the pointer env of a running env_select once ruby_setenv has answered r
\* for the environment e: it stays where it pointed; moved tells whether
\* REALLOC_N has moved the array
Repoint(f, e, r, moved) ==
    IF f.where # "environ" THEN f
    ELSE IF r.copied THEN [f EXCEPT !.where = "origenviron", !.old = e.environ]
    ELSE IF r.grown /\ moved THEN [f EXCEPT !.where = "freed", !.old = e.environ]
    ELSE f

InitEnv ==
    /\ hash = hash_alloc
    /\ stack = <<>>
    /\ result = [op |-> "new", err |-> "none", val |-> Qnil, swept |-> 0]
    /\ trace = [environ |-> <<EnvEntry(1, 1), EnvEntry(2, 1)>>, orig |-> TRUE]

EnvWrite(op, r, val, moved) ==
    /\ CanCall
    /\ trace' = [environ |-> r.environ, orig |-> r.orig]
    /\ stack' = IF stack = <<>> THEN stack ELSE <<Repoint(Top, trace, r, moved)>>
    /\ result' = [op |-> op, err |-> r.err, val |-> val, swept |-> 0]
    /\ UNCHANGED hash

EnvAset ==
    \E n \in EnvNames, v \in EnvVals, moved \in BOOLEAN :
        EnvWrite("env_aset", env_aset(trace, n, v), v, moved)

EnvDelete ==
    \E n \in EnvNames :
        EnvWrite("env_delete", env_delete(trace, n), getenv(trace.environ, n), FALSE)

EnvClear == EnvWrite("rb_env_clear", rb_env_clear(trace), 1, FALSE)

EnvShift == EnvWrite("env_shift", env_shift(trace), env_shift(trace).val, FALSE)

\* ruby_unsetenv, called by C code
EnvUnset ==
    \E n \in EnvNames :
        EnvWrite("ruby_unsetenv",
                 EnvRet(ruby_unsetenv(trace, n), Qnil, "none", <<OsSet(n, Qnil)>>),
                 Qnil, FALSE)

\* env_select up to its loop: result = rb_hash_new(), env = environ
EnvSelectBegin ==
    /\ stack = <<>>
    /\ stack' = << [op |-> "env_select", pc |-> "iter", pos |-> 1, key |-> Qnil,
                    val |-> Qnil, where |-> "environ", old |-> <<>>,
                    start |-> EnvNamesOf(trace.environ), seen |-> <<>>] >>
    /\ hash' = rb_hash_new
    /\ result' = [op |-> "begin", err |-> "none", val |-> "env_select", swept |-> 0]
    /\ UNCHANGED trace

\* the array env points into
EnvArray(f) == IF f.where = "environ" THEN trace.environ ELSE f.old

\* what env_select hands back, with the names of its start and of its calls
EnvSelected(f, err) ==
    [op |-> "env_select", err |-> err,
     val |-> [start |-> f.start, seen |-> f.seen, ans |-> LiveEntries(hash)],
     swept |-> 0]

\* the block of env_select is called with the name and the value
EnvSelectYield(f, name, value) ==
    /\ stack' = << [f EXCEPT !.pc = "yield", !.key = name, !.val = value,
                             !.seen = Append(@, name)] >>
    /\ result' = [op |-> "step", err |-> "none", val |-> Qnil, swept |-> 0]

\* "while (*env)" with env pointing into an array REALLOC_N has moved: the
\* memory read is not the program's any more, and what is found there is
\* any of: a fault; the terminator; a string without "=", which the loop
\* passes over; a string "name=value" of whatever is or was in the
\* environment.  The loop is followed for MaxReads turns.
EnvSelectFreed(f) ==
    \/ /\ stack' = <<>>
       /\ result' = EnvSelected(f, "fault")
    \/ /\ stack' = <<>>
       /\ result' = EnvSelected(f, "none")
    \/ /\ f.pos <= MaxReads
       /\ stack' = << [f EXCEPT !.pos = @ + 1] >>
       /\ result' = [op |-> "step", err |-> "none", val |-> Qnil, swept |-> 0]
    \/ /\ f.pos <= MaxReads
       /\ \E n \in EnvNames, v \in EnvVals : EnvSelectYield(f, n, v)

\* "while (*env)": the loop reads *env and calls the block with the name and
\* the value, or ends at the terminator
EnvSelectStep ==
    /\ stack # <<>>
    /\ Top.pc = "iter"
    /\ IF Top.where = "freed"
       THEN EnvSelectFreed(Top)
       ELSE IF Top.pos > Len(EnvArray(Top))
       THEN /\ stack' = <<>>
            /\ result' = EnvSelected(Top, "none")
       ELSE EnvSelectYield(Top, EnvArray(Top)[Top.pos].name, EnvArray(Top)[Top.pos].val)
    /\ UNCHANGED <<hash, trace>>

\* the block answers b: rb_hash_aset(result, k, v) when true, then env++
EnvBlockReturn ==
    /\ stack # <<>>
    /\ Top.pc = "yield"
    /\ \E b \in BOOLEAN :
          /\ hash' = IF b THEN rb_hash_aset(hash, Top.key, Top.val).h ELSE hash
          /\ result' = [op |-> "return", err |-> "none", val |-> b, swept |-> 0]
    /\ stack' = << [Top EXCEPT !.pc = "iter", !.pos = @ + 1] >>
    /\ UNCHANGED trace

NextEnv ==
    \/ EnvAset
    \/ EnvDelete
    \/ EnvClear
    \/ EnvShift
    \/ EnvUnset
    \/ EnvSelectBegin
    \/ EnvSelectStep
    \/ EnvBlockReturn

SpecEnv == InitEnv /\ [][NextEnv]_vars

(***************************************************************************)
(* ENV.each, each_key, each_value, reject! and delete_if.  These methods   *)
(* fill a Ruby Array from environ before they call the block.  The frame   *)
(* of the method holds that Array (ary), the index of its loop (pos), the  *)
(* entries of the environment when it was called (start), what it has      *)
(* passed to the block so far (seen) and the count of reject! (del).  The  *)
(* block may call ENV[]=, ENV.delete, ENV.clear, ENV.shift and             *)
(* ruby_unsetenv.                                                          *)
(***************************************************************************)
EnvEachOps ==
    {"env_each_pair", "env_each_key", "env_each_value", "env_reject_bang", "env_delete_if"}

\* env_delete_if is env_reject_bang with another value returned
EnvRejects(op) == op \in {"env_reject_bang", "env_delete_if"}

EachVals == {1, 2}

\* env_values
env_values(environ) == [i \in DOMAIN environ |-> environ[i].val]

\* the Array env_each_pair fills: name, value, name, value, ...
env_pairs(environ) ==
    [i \in 1..(2 * Len(environ)) |->
        IF i % 2 = 1 THEN environ[(i + 1) \div 2].name ELSE environ[i \div 2].val]

\* the Array each of the methods fills before its loop
env_each_ary(op, environ) ==
    CASE op = "env_each_pair"  -> env_pairs(environ)
      [] op = "env_each_value" -> env_values(environ)
      [] OTHER                 -> env_keys(environ)

\* a loop that reads environ at every turn instead of the Array
RARRAY_live(f, environ) == env_each_ary(f.op, environ)

\* the Array the loop of the method reads with RARRAY_LEN and RARRAY_AT
RARRAY(f, environ) == f.ary

\* i += 2 in env_each_pair, i++ in the others
EnvStride(op) == IF op = "env_each_pair" THEN 2 ELSE 1

\* what the loop passes to the block at index i of the Array a
EnvItem(op, a, i, environ) ==
    CASE op = "env_each_pair"   -> <<a[i], a[i + 1]>>
      [] EnvRejects(op)         -> <<a[i], getenv(environ, a[i])>>
      [] OTHER                  -> a[i]

\* the variables set here: the name 1 gets either value, the others the
\* value 1
EachPairs == {p \in EnvNames \X EachVals : p[1] = 1 \/ p[2] = 1}

EnvStore ==
    \E p \in EachPairs :
        EnvWrite("env_aset", env_aset(trace, p[1], p[2]), p[2], FALSE)

EnvEachBegin ==
    /\ stack = <<>>
    /\ \E op \in EnvEachOps :
          /\ stack' = << [op |-> op, pc |-> "iter", pos |-> 1, key |-> Qnil,
                          where |-> "array", old |-> <<>>,
                          ary |-> env_each_ary(op, trace.environ),
                          start |-> trace.environ, seen |-> <<>>, del |-> 0] >>
          /\ result' = [op |-> "begin", err |-> "none", val |-> op, swept |-> 0]
    /\ UNCHANGED <<hash, trace>>

\* what the method hands back: nil from reject! when it deleted nothing,
\* ENV otherwise, and ENV from delete_if in any case
EnvEachDone(f) ==
    [op |-> f.op, err |-> "none",
     val |-> [start |-> f.start, seen |-> f.seen,
              ans |-> IF f.op = "env_reject_bang" /\ f.del = 0 THEN Qnil ELSE 1],
     swept |-> 0]

\* one turn of the loop up to the call of the block; reject! passes over a
\* name rb_f_getenv does not find any more
EnvEachTurn(f, a) ==
    IF f.pos > Len(a)
    THEN /\ stack' = <<>>
         /\ result' = EnvEachDone(f)
    ELSE IF EnvRejects(f.op) /\ rb_f_getenv(trace, a[f.pos]).val = Qnil
    THEN /\ stack' = << [f EXCEPT !.pos = @ + 1] >>
         /\ result' = [op |-> "step", err |-> "none", val |-> Qnil, swept |-> 0]
    ELSE /\ stack' = << [f EXCEPT !.pc = "yield", !.key = a[f.pos],
                                  !.seen = Append(@, EnvItem(f.op, a, f.pos, trace.environ))] >>
         /\ result' = [op |-> "step", err |-> "none", val |-> Qnil, swept |-> 0]

EnvEachStep ==
    /\ stack # <<>>
    /\ Top.pc = "iter"
    /\ EnvEachTurn(Top, RARRAY(Top, trace.environ))
    /\ UNCHANGED <<hash, trace>>

\* the block has answered b: reject! and delete_if delete the name when b
\* is true
EnvEachAfter(f, b, r) ==
    /\ trace' = [environ |-> r.environ, orig |-> r.orig]
    /\ stack' = << [f EXCEPT !.pc = "iter", !.pos = @ + EnvStride(f.op),
                             !.del = IF EnvRejects(f.op) /\ b THEN @ + 1 ELSE @] >>
    /\ result' = [op |-> "return", err |-> "none", val |-> b, swept |-> 0]
    /\ UNCHANGED hash

EnvEachReturn ==
    /\ stack # <<>>
    /\ Top.pc = "yield"
    /\ \E b \in BOOLEAN :
          EnvEachAfter(Top, b, IF EnvRejects(Top.op) /\ b
                               THEN env_delete(trace, Top.key) ELSE EnvSame(trace))

NextEnvEach ==
    \/ EnvStore
    \/ EnvDelete
    \/ EnvClear
    \/ EnvShift
    \/ EnvUnset
    \/ EnvEachBegin
    \/ EnvEachStep
    \/ EnvEachReturn

SpecEnvEach == InitEnv /\ [][NextEnvEach]_vars

(***************************************************************************)
(* The methods of ENV that call no block in a loop, called from the top    *)
(* level: []=, [], fetch, delete, has_key?, clear, shift and replace.      *)
(* result holds the arguments, the environment before the call, the value  *)
(* returned, the calls of the block given (yields) and the calls of getenv *)
(* and ruby_setenv made.  replace is followed call by call: its frame      *)
(* holds the entries of its argument (hash2), the Array of names to delete *)
(* (keys), the loop it is in (pc) and its index (pos).                     *)
(***************************************************************************)
AnyNames == EnvNames \cup BadStrings

AnyVals == EachVals \cup BadStrings \cup {Qnil}

\* env_fetch
env_fetch(e, key, argc, if_none, block_given) ==
    IF HasNul(key)
    THEN EnvRet(EnvSame(e), Qnil, "bad environment variable name", <<>>)
    ELSE IF getenv(e.environ, RSTRING_PTR(key)) # Qnil
    THEN EnvRet(EnvSame(e), getenv(e.environ, RSTRING_PTR(key)), "none",
                <<OsGet(RSTRING_PTR(key))>>)
    ELSE IF block_given
    THEN EnvRet(EnvSame(e), BlockValue(key), "none", <<OsGet(RSTRING_PTR(key))>>)
    ELSE IF argc = 1
    THEN EnvRet(EnvSame(e), Qnil, "key not found", <<OsGet(RSTRING_PTR(key))>>)
    ELSE EnvRet(EnvSame(e), if_none, "none", <<OsGet(RSTRING_PTR(key))>>)

\* env_has_key
env_has_key(e, key) ==
    IF HasNul(key)
    THEN EnvRet(EnvSame(e), Qnil, "bad environment variable name", <<>>)
    ELSE EnvRet(EnvSame(e), getenv(e.environ, RSTRING_PTR(key)) # Qnil, "none",
                <<OsGet(RSTRING_PTR(key))>>)

\* env_delete_m: the block is called with the name when env_delete answers
\* nil, and what env_delete answered is returned
env_delete_m_yields(d, name, block_given) ==
    IF d.err = "none" /\ d.val = Qnil /\ block_given THEN <<name>> ELSE <<>>

env_delete_m(e, name, block_given) == env_delete(e, name)

\* a method called from the top level
EnvCall(op, args, r, yields) ==
    /\ stack = <<>>
    /\ trace' = [environ |-> r.environ, orig |-> r.orig]
    /\ result' = [op |-> op, err |-> r.err,
                  val |-> [args |-> args, before |-> trace.environ, ans |-> r.val,
                           yields |-> yields, calls |-> r.calls],
                  swept |-> 0]
    /\ UNCHANGED <<hash, stack>>

EnvAsetAny ==
    \E n \in AnyNames, v \in AnyVals :
        EnvCall("env_aset", [key |-> n, val |-> v], env_aset(trace, n, v), <<>>)

EnvGet ==
    \E n \in AnyNames :
        EnvCall("rb_f_getenv", [key |-> n], rb_f_getenv(trace, n), <<>>)

EnvFetch ==
    \E n \in AnyNames, argc \in {1, 2}, bg \in BOOLEAN :
        EnvCall("env_fetch", [key |-> n, argc |-> argc, bg |-> bg],
                env_fetch(trace, n, argc, 1, bg),
                IF bg /\ env_fetch(trace, n, argc, 1, bg).val = BlockValue(n)
                THEN <<n>> ELSE <<>>)

EnvHasKey ==
    \E n \in AnyNames :
        EnvCall("env_has_key", [key |-> n], env_has_key(trace, n), <<>>)

EnvDeleteM ==
    \E n \in AnyNames, bg \in BOOLEAN :
        EnvCall("env_delete_m", [key |-> n, bg |-> bg], env_delete_m(trace, n, bg),
                env_delete_m_yields(env_delete(trace, n), n, bg))

EnvClearCall == EnvCall("rb_env_clear", <<>>, rb_env_clear(trace), <<>>)

EnvShiftCall == EnvCall("env_shift", <<>>, env_shift(trace), <<>>)

\* the Hashes given to update and replace, as their entries in order
EnvMaps ==
    {<<>>, << <<5, 1>> >>, << <<4, 1>>, <<5, 1>> >>}
    \cup {<< <<n, v>> >> : n \in EnvNames, v \in EachVals}
    \cup {p \in {<< <<n, v>>, <<m, w>> >> : n \in EnvNames, m \in EnvNames,
                                             v \in EachVals, w \in EachVals} :
             p[1][1] # p[2][1]}

\* env_replace_i that leaves the Array keys as it is
env_replace_i_keep(e, keys, key, val) ==
    [r |-> env_aset(e, key, val), keys |-> keys]

\* env_replace_i: env_aset, then the name is taken out of the Array keys
env_replace_i(e, keys, key, val) ==
    [r |-> env_aset(e, key, val),
     keys |-> IF env_aset(e, key, val).err = "none"
              THEN SelectSeq(keys, LAMBDA k : k # key) ELSE keys]

\* env_replace up to rb_hash_foreach: keys = env_keys()
EnvReplaceBegin ==
    /\ stack = <<>>
    /\ \E m \in EnvMaps :
          stack' = << [op |-> "env_replace", pc |-> "set", pos |-> 1,
                       where |-> "array", old |-> <<>>, hash2 |-> m,
                       keys |-> env_keys(trace.environ),
                       start |-> trace.environ, calls |-> <<>>] >>
    /\ result' = [op |-> "begin", err |-> "none", val |-> "env_replace", swept |-> 0]
    /\ UNCHANGED <<hash, trace>>

\* env_replace returns, or the error of env_aset leaves it
EnvReplaceEnd(f, err) ==
    /\ stack' = <<>>
    /\ result' = [op |-> "env_replace", err |-> err,
                  val |-> [args |-> [hash2 |-> f.hash2], before |-> f.start,
                           ans |-> 1, yields |-> <<>>, calls |-> f.calls],
                  swept |-> 0]

\* one call of env_replace_i by rb_hash_foreach
EnvReplaceSet(f, i) ==
    IF i.r.err # "none"
    THEN EnvReplaceEnd(f, i.r.err) /\ UNCHANGED <<hash, trace>>
    ELSE /\ trace' = [environ |-> i.r.environ, orig |-> i.r.orig]
         /\ stack' = << [f EXCEPT !.pos = @ + 1, !.keys = i.keys,
                                  !.calls = @ \o i.r.calls] >>
         /\ result' = [op |-> "step", err |-> "none", val |-> Qnil, swept |-> 0]
         /\ UNCHANGED hash

\* one turn of the loop over keys: env_delete(env, RARRAY_AT(keys, i))
EnvReplaceDel(f, d) ==
    /\ trace' = [environ |-> d.environ, orig |-> d.orig]
    /\ stack' = << [f EXCEPT !.pos = @ + 1, !.calls = @ \o d.calls] >>
    /\ result' = [op |-> "step", err |-> "none", val |-> Qnil, swept |-> 0]
    /\ UNCHANGED hash

EnvReplaceStep ==
    /\ stack # <<>>
    /\ Top.op = "env_replace"
    /\ IF Top.pc = "set" /\ Top.pos <= Len(Top.hash2)
       THEN EnvReplaceSet(Top, env_replace_i(trace, Top.keys, Top.hash2[Top.pos][1],
                                             Top.hash2[Top.pos][2]))
       ELSE IF Top.pc = "set"
       THEN /\ stack' = << [Top EXCEPT !.pc = "del", !.pos = 1] >>
            /\ result' = [op |-> "step", err |-> "none", val |-> Qnil, swept |-> 0]
            /\ UNCHANGED <<hash, trace>>
       ELSE IF Top.pos <= Len(Top.keys)
       THEN EnvReplaceDel(Top, env_delete(trace, Top.keys[Top.pos]))
       ELSE EnvReplaceEnd(Top, "none") /\ UNCHANGED <<hash, trace>>

NextEnvCalls ==
    \/ EnvAsetAny
    \/ EnvGet
    \/ EnvFetch
    \/ EnvHasKey
    \/ EnvDeleteM
    \/ EnvClearCall
    \/ EnvShiftCall
    \/ EnvReplaceBegin
    \/ EnvReplaceStep

SpecEnvCalls == InitEnv /\ [][NextEnvCalls]_vars

(***************************************************************************)
(* ENV.update, followed call by call of env_update_i.  Its frame holds the *)
(* entries of its argument (hash2), what its block answers (res), the      *)
(* index of the entry it is at (pos), the calls of the block made (yields),*)
(* the environment each of them was made in (envs) and the calls of getenv *)
(* and ruby_setenv made (calls).  While the block runs (pc = "yield") it   *)
(* may call ENV[]=, ENV.delete and ENV.clear.                              *)
(***************************************************************************)
\* the Hashes given to update, as their entries in order
UpdateMaps ==
    {<<>>, << <<5, 1>> >>, << <<4, 1>>, <<5, 1>> >>}
    \cup {<< p >> : p \in EachPairs}
    \cup {<< <<1, 2>>, <<n, 1>> >> : n \in {2, 4}}

\* env_update_i that calls the block only for a name that is set
env_update_i_present(e, key, val, block_given) ==
    IF block_given /\ getenv(e.environ, RSTRING_PTR(key)) # Qnil
    THEN [r |-> rb_f_getenv(e, key), yield |-> rb_f_getenv(e, key).err = "none"]
    ELSE [r |-> env_aset(e, key, val), yield |-> FALSE]

\* env_update_i up to the call of the block, or to its end when no block is
\* given: [r, yield].  With a block r is what rb_f_getenv answered, the
\* value to pass to the block, and yield tells whether the block is called
\* (rb_f_getenv may raise before); without one r is what env_aset answered
env_update_i(e, key, val, block_given) ==
    IF block_given
    THEN [r |-> rb_f_getenv(e, key), yield |-> rb_f_getenv(e, key).err = "none"]
    ELSE [r |-> env_aset(e, key, val), yield |-> FALSE]

\* env_update_i after the block has answered value
env_update_i_set(e, key, value) == env_aset(e, key, value)

\* env_update up to rb_hash_foreach(hash, env_update_i, 0); res tells what
\* the block answers, "none" when no block is given
EnvUpdateBegin ==
    /\ stack = <<>>
    /\ \E m \in UpdateMaps, res \in Resolvers :
          stack' = << [op |-> "env_update", pc |-> "iter", pos |-> 1,
                       where |-> "array", old |-> <<>>, hash2 |-> m, res |-> res,
                       key |-> Qnil, oldval |-> Qnil, start |-> trace.environ,
                       yields |-> <<>>, envs |-> <<>>, calls |-> <<>>] >>
    /\ result' = [op |-> "begin", err |-> "none", val |-> "env_update", swept |-> 0]
    /\ UNCHANGED <<hash, trace>>

\* env_update returns ENV (written 1), or an error leaves it
EnvUpdateEnd(f, err, calls) ==
    /\ stack' = <<>>
    /\ result' = [op |-> "env_update", err |-> err,
                  val |-> [args |-> [hash2 |-> f.hash2, res |-> f.res],
                           before |-> f.start,
                           ans |-> IF err = "none" THEN 1 ELSE Qnil,
                           yields |-> f.yields, envs |-> f.envs, calls |-> calls],
                  swept |-> 0]
    /\ UNCHANGED <<hash, trace>>

\* env_aset of env_update_i has answered r
EnvUpdateSet(f, key, r) ==
    IF r.err # "none" THEN EnvUpdateEnd(f, r.err, f.calls \o r.calls)
    ELSE /\ trace' = [environ |-> r.environ, orig |-> r.orig]
         /\ stack' = << [f EXCEPT !.pc = "iter", !.pos = @ + 1,
                                  !.calls = @ \o r.calls] >>
         /\ result' = [op |-> "env_update_i", err |-> "none",
                       val |-> [key |-> key, value |-> r.val], swept |-> 0]
         /\ UNCHANGED hash

\* one call of env_update_i by rb_hash_foreach, up to the call of the block
\* when there is one; envs keeps the environment the block is called in
EnvUpdateTurn(f, key, val, u) ==
    IF u.yield
    THEN /\ stack' = << [f EXCEPT !.pc = "yield", !.key = key, !.oldval = u.r.val,
                                  !.yields = Append(@, <<key, u.r.val, val>>),
                                  !.envs = Append(@, trace.environ),
                                  !.calls = @ \o u.r.calls] >>
         /\ result' = [op |-> "step", err |-> "none", val |-> Qnil, swept |-> 0]
         /\ UNCHANGED <<hash, trace>>
    ELSE EnvUpdateSet(f, key, u.r)

EnvUpdateStep ==
    /\ stack # <<>>
    /\ Top.op = "env_update"
    /\ Top.pc = "iter"
    /\ IF Top.pos > Len(Top.hash2)
       THEN EnvUpdateEnd(Top, "none", Top.calls)
       ELSE EnvUpdateTurn(Top, Top.hash2[Top.pos][1], Top.hash2[Top.pos][2],
                          env_update_i(trace, Top.hash2[Top.pos][1],
                                       Top.hash2[Top.pos][2], Top.res # "none"))

\* the block of update answers: the value it was given as the old one or
\* the one of the argument; then env_aset
EnvUpdateReturn ==
    /\ stack # <<>>
    /\ Top.op = "env_update"
    /\ Top.pc = "yield"
    /\ EnvUpdateSet(Top, Top.key,
                    env_update_i_set(trace, Top.key,
                        rb_yield_values(Top.res, Top.key, Top.oldval,
                                        Top.hash2[Top.pos][2])))

NextEnvUpdate ==
    \/ EnvStore
    \/ EnvDelete
    \/ EnvClear
    \/ EnvUpdateBegin
    \/ EnvUpdateStep
    \/ EnvUpdateReturn

SpecEnvUpdate == InitEnv /\ [][NextEnvUpdate]_vars

(***************************************************************************)
(* Properties of the traversal protocol (specification Spec).              *)
(***************************************************************************)
HasTombstone(h) == \E i \in DOMAIN h.tbl.slots : h.tbl.slots[i].key = Qundef

\* C1: whenever no traversal is in progress (iter_lev = 0) the table holds no
\* slot marked Qundef, whatever set, delete, shift, clear, delete_if, each and
\* nested traversals came before and however they ended; and
\* hash_foreach_ensure removes slots only in the step that brings iter_lev
\* back to 0.
C1_NoTombstoneAtDepthZero ==
    /\ hash.iter_lev = 0 => ~HasTombstone(hash) /\ ~hash.deleted
    /\ result.swept > 0 => hash.iter_lev = 0

\* a traversal left by an error has just brought iter_lev to 0 and compacted
C1_Witness ==
    /\ hash.iter_lev = 0
    /\ result.swept > 0
    /\ result.err = "raise"

\* C3: in a step that starts and ends with a traversal in progress, no slot
\* leaves the table: every slot keeps its position, with its key or marked
\* Qundef.  This covers delete, shift, clear and delete_if called from a
\* block, and the end of a nested traversal (iter_lev from n + 1 to n >= 1).
C3_RemovalDeferred ==
    [][hash.iter_lev > 0 /\ hash'.iter_lev > 0 =>
          /\ hash'.ntbl = hash.ntbl
          /\ Len(hash'.tbl.slots) >= Len(hash.tbl.slots)
          /\ \A i \in DOMAIN hash.tbl.slots :
                hash'.tbl.slots[i].key \in {hash.tbl.slots[i].key, Qundef}]_vars

\* a nested delete_if has removed an entry and returned; the tombstone is
\* still in the table of the outer traversal
C3_Witness ==
    /\ hash.iter_lev = 1
    /\ Len(stack) = 1
    /\ result.op = "delete_if"
    /\ result.err = "none"
    /\ HasTombstone(hash)

\* C4: iter_lev is the number of traversals in progress: it goes up by one
\* when a traversal starts, down by one when the traversal ends (at the end
\* of the table, by break, by an error of the block or by "hash modified
\* during iteration"), back to its value at the start of the method, it is
\* left as it was by every other method, and it is never negative.
C4_DepthBalanced ==
    [][/\ hash'.iter_lev >= 0
       /\ hash'.iter_lev = Len(stack')
       /\ Len(stack') = Len(stack) + 1 => hash'.iter_lev = hash.iter_lev + 1
       /\ Len(stack') = Len(stack) - 1 =>
             /\ hash'.iter_lev = hash.iter_lev - 1
             /\ hash'.iter_lev = Top.lev0
       /\ Len(stack') = Len(stack) => hash'.iter_lev = hash.iter_lev]_vars

\* a nested traversal has ended by "hash modified during iteration"
C4_Witness ==
    /\ result.err = "hash modified during iteration"
    /\ Len(stack) = 1
    /\ hash.iter_lev = 1

\* C7: when the block returns and the table has grown since the block was
\* called (a key that was not present was stored and the table was full),
\* the traversal ends with "hash modified during iteration" and does not go
\* on; and that error is raised in no other case, in particular not after
\* deletions, which only mark slots.
C7_GrowthDetected ==
    [][stack # <<>> /\ Top.pc = "yield" /\ result'.err \notin {"break", "raise"} /\
       (Len(stack') < Len(stack) \/ (Len(stack') = Len(stack) /\ stack'[Len(stack')].pc = "iter"))
       =>
       LET grown == hash.tbl.num_bins # Top.bins IN
       /\ grown => Len(stack') < Len(stack) /\ result'.err = "hash modified during iteration"
       /\ result'.err = "hash modified during iteration" => grown]_vars

\* the traversal has failed after the block stored a new key into a full table
C7_Witness ==
    /\ result.op = "each"
    /\ result.err = "hash modified during iteration"
    /\ hash.tbl.num_bins > InitBins

(***************************************************************************)
(* Properties of one observed traversal (specification SpecObs).           *)
(***************************************************************************)
\* C2: when delete_if, called from the top level with a block that only
\* answers true or false, has returned: the block was called once for each
\* entry that was live at the start, in order, and the Hash holds exactly
\* the entries of the start the block answered false for, in their order.
C2_DeleteIfExact ==
    (trace.on /\ trace.op = "delete_if" /\ trace.done /\ trace.err = "none" /\ ~trace.calls)
    =>
    /\ trace.seen = KeysOf(trace.start)
    /\ LiveEntries(hash) = SelectSeq(trace.start, LAMBDA e : e[1] \notin trace.hits)
    /\ ~HasTombstone(hash)
    /\ rb_hash_size(hash) = Len(LiveEntries(hash))

\* delete_if has returned after removing some but not all of three entries
C2_Witness ==
    /\ trace.on /\ trace.op = "delete_if" /\ trace.done /\ trace.err = "none"
    /\ ~trace.calls
    /\ Len(trace.start) = 3
    /\ Cardinality(trace.hits) = 1

\* C6: in one traversal, whatever the block does to the Hash, no key is
\* passed to the block twice, and when the traversal has run to its end every
\* key that was present at each moment of the traversal was passed to it.
C6_NoDuplicateNoSkip ==
    trace.on =>
    /\ \A i, j \in DOMAIN trace.seen : i # j => trace.seen[i] # trace.seen[j]
    /\ (trace.done /\ trace.err = "none") =>
           \A k \in Range(KeysOf(trace.start)) \ trace.gone : k \in Range(trace.seen)

(***************************************************************************)
(* Properties of the views (specification SpecView).                       *)
(***************************************************************************)
ValsOf(ent) == [i \in DOMAIN ent |-> ent[i][2]]

\* C5: a slot marked Qundef is never seen from outside.  The key and value
\* handed to a block are those of a live entry; keys, values, to_a and merge
\* answer exactly the live entries in order; invert, key, assoc, has_value?,
\* has_key? and [] answer from the live entries alone; the Hash select
\* returns holds no Qundef; and once delete has removed a key during a
\* traversal, has_key? and [] miss it and no live entry carries it.
C5_TombstoneInvisible ==
    [][LET L  == LiveEntries(hash)
           a  == result'.val[1]
           r  == result'.val[2]
           at(k) == {e \in Range(L) : rb_any_cmp(e[1], k) = 0}
       IN
       /\ (stack # <<>> /\ Len(stack') = Len(stack) /\ stack'[Len(stack')].pc = "yield"
             /\ Top.pc = "iter") =>
             /\ stack'[Len(stack')].key # Qundef
             /\ stack'[Len(stack')].val # Qundef
             /\ <<stack'[Len(stack')].key, stack'[Len(stack')].val>> \in Range(LiveEntries(hash'))
       /\ result'.op = "keys" => r = KeysOf(L)
       /\ result'.op = "values" => r = ValsOf(L)
       /\ result'.op = "to_a" => r = L
       /\ result'.op = "merge" => r = L
       /\ result'.op = "invert" =>
             /\ \A e \in Range(r) : <<e[2], e[1]>> \in Range(L)
             /\ (L # <<>>) => (r # <<>>)
       /\ result'.op = "key" =>
             IF \E e \in Range(L) : e[2] = a THEN <<r, a>> \in Range(L) ELSE r = Qnil
       /\ result'.op = "assoc" => IF at(a) # {} THEN r \in at(a) ELSE r = <<>>
       /\ result'.op = "has_value" => (r <=> \E e \in Range(L) : e[2] = a)
       /\ result'.op = "has_key" => (r <=> at(a) # {})
       /\ result'.op = "aref" =>
             IF at(a) # {} THEN \E e \in at(a) : r = e[2] ELSE r = hash.ifnone
       /\ (result'.op = "select" /\ Len(stack') < Len(stack) /\ result'.err = "none") =>
             \A e \in Range(result'.val) : e[1] # Qundef /\ e[2] # Qundef
       /\ (hash.iter_lev > 0 /\ result'.op = "delete" /\ result'.val \in TravVals) =>
             \E k \in UserKeys :
                /\ rb_hash_has_key(hash, k)
                /\ ~rb_hash_has_key(hash', k)
                /\ rb_hash_aref(hash', k).val = hash'.ifnone
                /\ \A e \in Range(LiveEntries(hash')) : rb_any_cmp(e[1], k) # 0
                /\ HasTombstone(hash')]_vars

\* the block of a traversal asks for the keys while a slot is marked Qundef
\* and another entry is live
C5_Witness ==
    /\ hash.iter_lev > 0
    /\ HasTombstone(hash)
    /\ result.op = "keys"
    /\ Len(result.val[2]) >= 1

(***************************************************************************)
(* rehash and the frozen Hash.                                             *)
(***************************************************************************)
\* C8: rehash called while a traversal of the Hash is in progress raises
\* ("rehash during iteration") and leaves the Hash, its table, entries and
\* order as they were.
C8_RehashRefused ==
    [][(hash.iter_lev > 0 /\ result'.op = "rehash") =>
          /\ result'.err = "rehash during iteration"
          /\ hash' = hash
          /\ stack' = stack]_vars

\* rehash has just been refused in a block, with two entries in the table
C8_Witness ==
    /\ hash.iter_lev > 0
    /\ result.op = "rehash"
    /\ result.err = "rehash during iteration"
    /\ rb_hash_size(hash) >= 2

MutatingOps == {"aset", "delete", "shift", "clear", "delete_if", "reject_bang",
                "update", "replace", "rehash", "compare_by_identity", "set_default"}

\* C9: every method that modifies the Hash, called on a frozen Hash, raises
\* the frozen error and leaves the size as it was, whatever its argument.
C9_FrozenRaises ==
    [][(hash.frozen /\ stack = <<>> /\ stack' = <<>> /\ result'.op \in MutatingOps) =>
          /\ result'.err = "frozen"
          /\ rb_hash_size(hash') = rb_hash_size(hash)]_vars

\* C10: a frozen Hash stays frozen, whatever is called on it.
C10_FrozenMonotonic == [][hash.frozen => hash'.frozen]_vars

\* replace with another Hash has been called on a frozen Hash that holds an
\* entry
C10_Witness ==
    /\ hash.frozen
    /\ result.op = "replace"
    /\ result.err = "frozen"
    /\ rb_hash_size(hash) >= 1

(***************************************************************************)
(* Properties of the comparator (specification SpecIdentity).              *)
(***************************************************************************)
FailableOps == {"update", "update_block", "replace", "compare_by_identity"}

\* the Hash as it was when the call that ends in this step was made
Before == IF result'.op = "update_block" THEN Top.before ELSE hash

\* C11: when update (with or without a block), replace or compare_by_identity
\* ends with an error, the Hash has the entries, in the order, and the
\* comparator it had before the call: nothing of the call was applied.  For
\* update with a block this is asked when the block has called no method
\* that changed the Hash.
C11_AllOrNothing ==
    [][(/\ result'.op \in FailableOps
        /\ result'.err # "none"
        /\ result'.op = "update_block" => Top.calls = 0) =>
          /\ LiveEntries(hash') = LiveEntries(Before)
          /\ rb_hash_compare_by_id_p(hash') = rb_hash_compare_by_id_p(Before)]_vars

\* TRUE when the slots of the table are placed under the comparator in force
Rebuilt(h) == h.tbl.index = h.tbl.type

\* C12: in every state the table of the Hash is indexed under the comparator
\* in force: a Hash never compares by identity over slots placed under value
\* equality, and compare_by_identity refused during a traversal leaves the
\* comparator as it was.
C12_SwitchAtomic == rb_hash_compare_by_id_p(hash) => Rebuilt(hash)

\* C13: once compare_by_identity? answers true it answers true after every
\* later call ([]=, delete, clear, rehash, default=, replace, update, each);
\* and compare_by_identity called on a Hash that already compares by
\* identity, its table rebuilt by the call that succeeded, leaves the
\* comparator and the entries, in their order, as they were.
C13_IdentityOneWay ==
    [][/\ rb_hash_compare_by_id_p(hash) => rb_hash_compare_by_id_p(hash')
       /\ (result'.op = "compare_by_identity" /\ rb_hash_compare_by_id_p(hash) /\
           Rebuilt(hash)) =>
             /\ rb_hash_compare_by_id_p(hash')
             /\ LiveEntries(hash') = LiveEntries(hash)]_vars

\* replace with another Hash has been called on a Hash that compares by
\* identity, and the Hash holds the two entries of the other Hash
C13_Witness ==
    /\ rb_hash_compare_by_id_p(hash)
    /\ Rebuilt(hash)
    /\ result.op = "replace"
    /\ result.err = "none"
    /\ rb_hash_size(hash) = 2

C15_CreatedFresh ==
    result.op = "create" =>
        /\ ~rb_hash_compare_by_id_p(result.val)
        /\ result.val.ifnone = Qnil
        /\ ~result.val.proc_default

(***************************************************************************)
(* Properties of the default (specification SpecDefault).                  *)
(***************************************************************************)
\* the default policy in force
Policy(h) ==
    IF h.proc_default THEN "ComputedOnMiss"
    ELSE IF h.ifnone = Qnil THEN "None"
    ELSE "StaticValue"

\* the value stored for a key the Hash has
Stored(h, key) ==
    (CHOOSE e \in Range(LiveEntries(h)) : rb_any_cmp(e[1], key) = 0)[2]

\* C16: fetch of a key the Hash has not never calls the default proc and
\* answers what it would answer on a Hash without a default; [] of such a key
\* answers the default value when the Hash has one, and when the Hash has a
\* default proc it calls that proc once, with the Hash and the key, and
\* answers what the proc answered.
C16_DefaultPrecedence ==
    (result.op \in {"fetch", "aref"} /\ ~rb_hash_has_key(hash, result.val.key)) =>
        /\ result.op = "fetch" =>
              /\ \A i \in DOMAIN result.val.ans.calls :
                    result.val.ans.calls[i][1] # "default_proc"
              /\ result.val.ans =
                    rb_hash_fetch([hash EXCEPT !.ifnone = Qnil, !.proc_default = FALSE],
                                  result.val.key, result.val.argc, result.val.if_none,
                                  result.val.block_given)
              /\ (~result.val.block_given /\ result.val.argc = 1) =>
                    result.err = "key not found"
        /\ (result.op = "aref" /\ Policy(hash) = "StaticValue") =>
              result.val.ans = Ans(hash.ifnone, "none", <<>>)
        /\ (result.op = "aref" /\ Policy(hash) = "None") =>
              result.val.ans = Ans(Qnil, "none", <<>>)
        /\ (result.op = "aref" /\ Policy(hash) = "ComputedOnMiss" /\
            hash.ifnone = DefaultProc) =>
              result.val.ans = Ans(ProcValue(result.val.key), "none",
                                   << <<"default_proc", hash, result.val.key>> >>)

\* fetch without block or second argument has just raised for a key the Hash
\* has not, on a Hash with a default proc and an entry
C16_Witness ==
    /\ result.op = "fetch"
    /\ result.err = "key not found"
    /\ hash.proc_default
    /\ hash.ifnone = DefaultProc
    /\ rb_hash_size(hash) >= 1

\* C17: fetch of a key the Hash has answers the stored value and calls
\* nothing; of a key it has not, it calls the block with the key and answers
\* what the block answered when a block is given (with or without a second
\* argument), answers the second argument when only that is given, and
\* raises "key not found" otherwise; and it leaves the Hash as it was.
C17_FetchContract ==
    result.op = "fetch" =>
        /\ hash = result.val.before
        /\ IF rb_hash_has_key(hash, result.val.key)
           THEN result.val.ans = Ans(Stored(hash, result.val.key), "none", <<>>)
           ELSE IF result.val.block_given
           THEN result.val.ans = Ans(BlockValue(result.val.key), "none",
                                     << <<"block", result.val.key>> >>)
           ELSE IF result.val.argc = 2
           THEN result.val.ans = Ans(result.val.if_none, "none", <<>>)
           ELSE result.val.ans.err = "key not found" /\ result.val.ans.calls = <<>>

\* fetch with a second argument and a block has just answered what the block
\* answered, for a key the Hash has not, while the Hash has another key
C17_Witness ==
    /\ result.op = "fetch"
    /\ result.val.block_given
    /\ result.val.argc = 2
    /\ result.val.ans.val = BlockValue(result.val.key)
    /\ rb_hash_size(hash) >= 1

\* C18: on a Hash without a default, what [] answers for a key the Hash has
\* not differs from what [] answers for a key stored with the value nil.
C18_MissDistinctFromNil ==
    (result.op = "aref" /\ Policy(hash) = "None" /\ ~rb_hash_has_key(hash, result.val.key)) =>
        \A k \in UserKeys :
            (rb_hash_has_key(hash, k) /\ Stored(hash, k) = Qnil) =>
                result.val.ans # rb_hash_aref(hash, k)

\* C19: the flag HASH_PROC_DEFAULT is set only while the default stored is
\* the Proc made of a block; default= leaves the value given as the default
\* and the flag clear; initialize with a block leaves the Proc and the flag
\* set, and initialize without a block leaves the flag clear.
C19_OnePolicy ==
    /\ hash.proc_default => hash.ifnone = DefaultProc
    /\ (result.op = "set_default" /\ result.err = "none") =>
          ~hash.proc_default /\ hash.ifnone = result.val
    /\ (result.op = "initialize" /\ result.err = "none") =>
          (hash.proc_default <=> hash.ifnone = DefaultProc)

\* TRUE when [] of a key the Hash has not answers as on a Hash without default
AsUnderNone(h) ==
    \A k \in UserKeys : rb_hash_default(h, 1, k) = Ans(Qnil, "none", <<>>)

\* C20: once the Hash has a default value or a default proc, no call of
\* default=, replace, clear, update or rehash brings it to a state in which
\* [] of a key the Hash has not answers as on a Hash without default.
C20_NoWayBackToNone ==
    [][(result'.op \in {"set_default", "replace", "clear", "update", "rehash"} /\
        ~AsUnderNone(hash)) => ~AsUnderNone(hash')]_vars

\* C21: [] of a key the Hash has not, on a Hash with a default value or
\* without a default, answers that default (nil without one), calls nothing
\* and leaves the Hash as it was: the same entries in the same order, the
\* same size, the same table and flags.
C21_MissLeavesHash ==
    (result.op = "aref" /\ Policy(result.val.before) \in {"StaticValue", "None"} /\
     ~rb_hash_has_key(result.val.before, result.val.key)) =>
        /\ result.val.ans = Ans(result.val.before.ifnone, "none", <<>>)
        /\ LiveEntries(hash) = LiveEntries(result.val.before)
        /\ rb_hash_size(hash) = rb_hash_size(result.val.before)
        /\ hash = result.val.before

\* [] has just answered the default value 1 for a key the Hash has not, on a
\* Hash of one entry
C21_Witness ==
    /\ result.op = "aref"
    /\ Policy(hash) = "StaticValue"
    /\ ~rb_hash_has_key(hash, result.val.key)
    /\ result.val.ans.val = 1
    /\ rb_hash_size(hash) = 1
    /\ rb_hash_size(result.val.before) = 1

\* C27: delete of a key the Hash has hands back the value stored under it and
\* leaves the Hash without the key, the other entries as and where they were;
\* of a key the Hash has not, it leaves the entries as they were and hands
\* back what the block answers for the key, calling it once, when a block is
\* given, and nil otherwise; and it never asks the default value or the
\* default proc, whichever the Hash has.
C27_DeleteContract ==
    (result.op = "delete" /\ result.err = "none") =>
        /\ \A i \in DOMAIN result.val.ans.calls :
              result.val.ans.calls[i][1] # "default_proc"
        /\ ~rb_hash_has_key(hash, result.val.key)
        /\ hash.ifnone = result.val.before.ifnone
        /\ hash.proc_default = result.val.before.proc_default
        /\ IF rb_hash_has_key(result.val.before, result.val.key)
           THEN /\ result.val.ans =
                      Ans(Stored(result.val.before, result.val.key), "none", <<>>)
                /\ LiveEntries(hash) =
                      SelectSeq(LiveEntries(result.val.before),
                                LAMBDA e : rb_any_cmp(e[1], result.val.key) # 0)
                /\ rb_hash_size(hash) = rb_hash_size(result.val.before) - 1
           ELSE /\ LiveEntries(hash) = LiveEntries(result.val.before)
                /\ rb_hash_size(hash) = rb_hash_size(result.val.before)
                /\ result.val.ans =
                      IF result.val.block_given
                      THEN Ans(BlockValue(result.val.key), "none",
                               << <<"block", result.val.key>> >>)
                      ELSE Ans(Qnil, "none", <<>>)

\* delete without a block has just handed back nil for a key the Hash has
\* not, on a Hash with an entry and the default value 1
C27_Witness ==
    /\ result.op = "delete"
    /\ ~result.val.block_given
    /\ ~rb_hash_has_key(result.val.before, result.val.key)
    /\ result.val.ans.val = Qnil
    /\ Policy(hash) = "StaticValue"
    /\ rb_hash_size(hash) >= 1

(***************************************************************************)
(* Properties of the entries and their order (specification SpecPairs).    *)
(***************************************************************************)
\* C22: the keys of the Hash, in the order in which a traversal meets them,
\* are the keys in the order in which each was last added, those removed
\* since left out; each calls its block with the entries in that order; []=
\* hands back the value given and stores it, for a key the Hash has at the
\* place the key has, every other entry staying where and as it was, and for
\* a key the Hash has not (never added, or removed since) after all others.
C22_InsertionOrder ==
    /\ KeysOf(LiveEntries(hash)) = trace.order
    /\ (stack # <<>> /\ Top.pc = "yield") =>
          /\ <<Top.key, Top.val>> = LiveEntries(hash)[Top.pos]
          /\ Top.key = trace.order[Top.pos]
    /\ (result.op = "aset" /\ result.err = "none") =>
          /\ result.val.ans = result.val.args.val
          /\ rb_hash_aref(hash, result.val.args.key) = Ans(result.val.args.val, "none", <<>>)
          /\ IF rb_hash_has_key(result.val.before, result.val.args.key)
             THEN /\ KeysOf(LiveEntries(hash)) = KeysOf(LiveEntries(result.val.before))
                  /\ \A i \in DOMAIN LiveEntries(hash) :
                        \/ LiveEntries(hash)[i] = LiveEntries(result.val.before)[i]
                        \/ LiveEntries(hash)[i] =
                              <<KeyStored(result.val.args.key), result.val.args.val>>
             ELSE LiveEntries(hash) =
                      Append(LiveEntries(result.val.before),
                             <<KeyStored(result.val.args.key), result.val.args.val>>)

\* []= has just added a key that had been removed before, to a Hash with
\* another entry, and the key is now the last one
C22_Witness ==
    /\ result.op = "aset"
    /\ KeyStored(result.val.args.key) \in trace.gone
    /\ ~rb_hash_has_key(result.val.before, result.val.args.key)
    /\ rb_hash_size(hash) >= 2
    /\ LiveEntries(hash)[rb_hash_size(hash)][1] = KeyStored(result.val.args.key)

\* the entries a Hash with the entries ent has after merge! with the entries
\* o of another Hash and the block res, and the calls of the block, worked
\* out entry by entry
HasKey(ent, key) == \E i \in DOMAIN ent : rb_any_cmp(ent[i][1], key) = 0

PosOf(ent, key) == CHOOSE i \in DOMAIN ent : rb_any_cmp(ent[i][1], key) = 0

MergedOne(ent, key, value, res) ==
    IF HasKey(ent, key)
    THEN [ent EXCEPT ![PosOf(ent, key)] = <<@[1], IF res = "old" THEN @[2] ELSE value>>]
    ELSE Append(ent, <<key, value>>)

RECURSIVE Merged(_, _, _)
Merged(ent, o, res) ==
    IF o = <<>> THEN ent
    ELSE Merged(MergedOne(ent, o[1][1], o[1][2], res), Tail(o), res)

InvokedOne(ent, key, value, res) ==
    IF res # "none" /\ HasKey(ent, key)
    THEN << <<key, ent[PosOf(ent, key)][2], value>> >>
    ELSE <<>>

RECURSIVE Invoked(_, _, _)
Invoked(ent, o, res) ==
    IF o = <<>> THEN <<>>
    ELSE InvokedOne(ent, o[1][1], o[1][2], res)
         \o Invoked(MergedOne(ent, o[1][1], o[1][2], res), Tail(o), res)

\* C23: update (merge!) with another Hash takes the entries of that Hash in
\* their order; for a key the receiver has it calls the block, when one is
\* given, once, with the key, the value the receiver has and the value of the
\* other Hash, and stores what the block answers; without a block it stores
\* the value of the other Hash; a key the receiver has not is added with the
\* value of the other Hash and the block is not called for it; and
\* {1 => 1, 2 => 2} updated with {2 => 3, "s" => 4} and a block answering the
\* old value becomes {1 => 1, 2 => 2, "s" => 4}.
C23_MergeResolver ==
    (result.op = "update" /\ result.err = "none") =>
        /\ LiveEntries(hash) =
              Merged(LiveEntries(result.val.before),
                     LiveEntries(HashLit(result.val.args.other)),
                     result.val.args.resolver)
        /\ result.val.ans.calls =
              Invoked(LiveEntries(result.val.before),
                      LiveEntries(HashLit(result.val.args.other)),
                      result.val.args.resolver)
        /\ (/\ LiveEntries(result.val.before) = << <<1, 1>>, <<2, 2>> >>
            /\ result.val.args.other = << <<2, 3>>, <<3, 4>> >>
            /\ result.val.args.resolver = "old") =>
              /\ LiveEntries(hash) = << <<1, 1>>, <<2, 2>>, <<rb_str_new4(3), 4>> >>
              /\ result.val.ans.calls = << <<2, 2, 3>> >>

\* update with a block answering the old value has just been called on
\* {1 => 1, 2 => 2} with {2 => 3, "s" => 4}
C23_Witness ==
    /\ result.op = "update"
    /\ result.err = "none"
    /\ LiveEntries(result.val.before) = << <<1, 1>>, <<2, 2>> >>
    /\ result.val.args.other = << <<2, 3>>, <<3, 4>> >>
    /\ result.val.args.resolver = "old"
    /\ Len(result.val.ans.calls) = 1

\* the entries a Hash with the entries ent has after []= with a key and a
\* value, and the entries of an empty Hash after one []= with (value, key)
\* for each of the entries b, in their order
SetOne(ent, key, value) ==
    IF HasKey(ent, key)
    THEN [ent EXCEPT ![PosOf(ent, key)] = <<@[1], value>>]
    ELSE Append(ent, <<KeyStored(key), value>>)

RECURSIVE Inverted(_)
Inverted(b) ==
    IF b = <<>> THEN <<>>
    ELSE SetOne(Inverted(SubSeq(b, 1, Len(b) - 1)), b[Len(b)][2], b[Len(b)][1])

\* the place of the last of the entries b that has a value equal to the key
LastWith(b, key) ==
    CHOOSE i \in DOMAIN b :
        /\ rb_any_cmp(b[i][2], key) = 0
        /\ \A j \in DOMAIN b : rb_any_cmp(b[j][2], key) = 0 => j <= i

\* C25: invert leaves the receiver as it was and hands back a new Hash that
\* has, for every value of the receiver, that value as a key, stored as by one
\* []= per entry of the receiver in the order of the receiver; the value
\* under it is the key of the last entry of the receiver, in that order, that
\* has an equal value.
C25_InvertLastWins ==
    (result.op = "invert" /\ result.err = "none") =>
        /\ hash = result.val.before
        /\ LiveEntries(result.val.ans) = Inverted(LiveEntries(hash))
        /\ \A i \in DOMAIN LiveEntries(hash) :
              rb_hash_has_key(result.val.ans, LiveEntries(hash)[i][2])
        /\ \A i \in DOMAIN LiveEntries(result.val.ans) :
              LiveEntries(result.val.ans)[i][2] =
                  LiveEntries(hash)[LastWith(LiveEntries(hash),
                                             LiveEntries(result.val.ans)[i][1])][1]

\* invert has just been called on a Hash of three entries, the first and the
\* last with equal values
C25_Witness ==
    /\ result.op = "invert"
    /\ rb_hash_size(hash) = 3
    /\ LiveEntries(hash)[1][2] = LiveEntries(hash)[3][2]
    /\ LiveEntries(hash)[2][2] # LiveEntries(hash)[1][2]
    /\ rb_hash_size(result.val.ans) = 2
    /\ LiveEntries(result.val.ans)[1][2] = LiveEntries(hash)[3][1]

(***************************************************************************)
(* Properties of select, delete_if, reject! and shift (specification       *)
(* SpecBlocks).                                                            *)
(***************************************************************************)
\* what a method handed back is nil, or the receiver (nil is a number and
\* "self" a string, which cannot be compared with each other)
IsNil(v) == ToString(v) = ToString(Qnil)

IsSelf(v) == ToString(v) = ToString("self")

\* the entries of an empty Hash after one []= for each of the entries picks,
\* in their order
RECURSIVE Selected(_)
Selected(picks) ==
    IF picks = <<>> THEN <<>>
    ELSE SetOne(Selected(SubSeq(picks, 1, Len(picks) - 1)),
                picks[Len(picks)][1], picks[Len(picks)][2])

\* C26: select hands back a Hash whose entries are the entries its block
\* answered true for, in the order in which the block was called, and no
\* others; when the block calls no method of the receiver, these are the
\* entries of the receiver the block answered true for, in the order of the
\* receiver, and the receiver is after select as it was before; delete_if
\* hands back the receiver.
C26_SelectFresh ==
    (trace.on /\ trace.done /\ result.err = "none") =>
        /\ trace.op = "select" =>
              /\ result.val = Selected(trace.picked)
              /\ ~trace.calls =>
                    /\ hash = trace.start
                    /\ result.val = SelectSeq(LiveEntries(trace.start),
                                              LAMBDA e : e \in Range(trace.picked))
        /\ trace.op = "delete_if" => IsSelf(result.val)

\* select has just handed back one of the two entries of the receiver, its
\* block having called nothing
C26_Witness ==
    /\ trace.on
    /\ trace.done
    /\ trace.op = "select"
    /\ result.err = "none"
    /\ ~trace.calls
    /\ rb_hash_size(trace.start) = 2
    /\ Len(result.val) = 1
    /\ result.val[1] = LiveEntries(hash)[2]

\* C28: reject! hands back nil exactly when the entries of the Hash are after
\* the call what they were before it, and the Hash otherwise, whatever its
\* block answers and whatever []= and shift the block calls.
C28_RejectBangNilIffUnchanged ==
    (trace.on /\ trace.done /\ trace.op = "reject_bang" /\ result.err = "none") =>
        /\ IsNil(result.val) \/ IsSelf(result.val)
        /\ IsNil(result.val) <=> LiveEntries(hash) = LiveEntries(trace.start)

\* C29: shift on a Hash that has entries removes the first of them, in the
\* order of a traversal, and no other, and hands back its key and value;
\* when no traversal is in progress the slot is removed, and during a
\* traversal it stays, marked; on a Hash without entries shift removes
\* nothing and hands back the default value (nil without one), or what the
\* default proc answers for the Hash and nil.
C29_ShiftFirst ==
    (result.op = "shift" /\ result.err = "none") =>
        IF LiveEntries(result.val.before) # <<>>
        THEN /\ result.val.ans = LiveEntries(result.val.before)[1]
             /\ LiveEntries(hash) = Tail(LiveEntries(result.val.before))
             /\ rb_hash_size(hash) = rb_hash_size(result.val.before) - 1
             /\ result.val.before.iter_lev = 0 =>
                   Len(hash.tbl.slots) = Len(result.val.before.tbl.slots) - 1
             /\ result.val.before.iter_lev > 0 =>
                   /\ Len(hash.tbl.slots) = Len(result.val.before.tbl.slots)
                   /\ hash.deleted
        ELSE /\ LiveEntries(hash) = <<>>
             /\ rb_hash_size(hash) = 0
             /\ Policy(hash) \in {"None", "StaticValue"} =>
                   result.val.ans = result.val.before.ifnone
             /\ (Policy(hash) = "ComputedOnMiss" /\ hash.ifnone = DefaultProc) =>
                   result.val.ans = ProcValue(Qnil)

\* shift, called by a block on a Hash with a default proc whose first slot is
\* marked, has just removed the entry of the second slot
C29_Witness ==
    /\ result.op = "shift"
    /\ result.err = "none"
    /\ result.val.before.iter_lev > 0
    /\ Len(hash.tbl.slots) >= 2
    /\ result.val.before.tbl.slots[1].key = Qundef
    /\ result.val.before.tbl.slots[2].key # Qundef
    /\ hash.tbl.slots[2].key = Qundef
    /\ result.val.ans[1] = result.val.before.tbl.slots[2].key
    /\ Policy(hash) = "ComputedOnMiss"

(***************************************************************************)
(* Properties of ENV (specification SpecEnv).                              *)
(***************************************************************************)
\* C30: ENV.select calls its block with the names the environment had when
\* select was called, in their order, each once, and with no other name,
\* whatever ENV[]= and ENV.delete the block calls.
C30_EnvSnapshot ==
    (result.op = "env_select" /\ result.err = "none") =>
        result.val.seen = result.val.start

(***************************************************************************)
(* Properties of ENV.each, each_key, each_value and reject! (SpecEnvEach). *)
(***************************************************************************)
\* the names among what a method has passed to its block
SeenNames(op, seen) ==
    CASE op = "env_each_key"   -> Range(seen)
      [] op = "env_each_value" -> {}
      [] OTHER                 -> {seen[i][1] : i \in DOMAIN seen}

\* the calls of the block the method makes for the entries of a start
\* nothing changes afterwards
EnvCallsOf(op, start) ==
    CASE op = "env_each_key"   -> [i \in DOMAIN start |-> start[i].name]
      [] op = "env_each_value" -> [i \in DOMAIN start |-> start[i].val]
      [] OTHER                 -> [i \in DOMAIN start |-> <<start[i].name, start[i].val>>]

\* C31: each, each_key, each_value and reject! of ENV go through the names
\* (values, pairs) the environment had when the method was called, whatever
\* the block does to the environment: the block is never called more often
\* than there were variables, never with a name that was not set at the
\* start, and each, each_key and each_value call it with exactly the names,
\* values and pairs of the start, in their order.
C31_EnvEachSnapshot ==
    /\ (stack # <<>> /\ Top.op \in EnvEachOps) =>
          /\ Len(Top.seen) <= Len(Top.start)
          /\ SeenNames(Top.op, Top.seen) \subseteq Range(EnvNamesOf(Top.start))
    /\ (result.op \in EnvEachOps /\ ~EnvRejects(result.op)) =>
          result.val.seen = EnvCallsOf(result.op, result.val.start)
    /\ (result.op \in EnvEachOps /\ EnvRejects(result.op)) =>
          /\ Len(result.val.seen) <= Len(result.val.start)
          /\ SeenNames(result.op, result.val.seen)
                \subseteq Range(EnvNamesOf(result.val.start))

\* each_key has returned after its block added a variable: the environment
\* has three variables, the block was called for the two of the start
C31_Witness ==
    /\ result.op = "env_each_key"
    /\ Len(result.val.start) = 2
    /\ Len(trace.environ) = 3
    /\ Len(result.val.seen) = 2

(***************************************************************************)
(* Properties of the methods of ENV called from the top level              *)
(* (SpecEnvCalls) and of ENV.update (SpecEnvUpdate).                       *)
(***************************************************************************)
\* the variables of an environment as <<name, value>>
EnvPairs(environ) == {<<environ[i].name, environ[i].val>> : i \in DOMAIN environ}

\* how often a method made the call c
Count(calls, c) == Cardinality({i \in DOMAIN calls : calls[i] = c})

\* C32: when replace has returned, it has called ruby_setenv(name, 0) once
\* for each name that was set and is not in its argument, ruby_setenv(name,
\* value) once for each entry of its argument that was not set or had
\* another value, ruby_setenv not at all for an entry that was set with the
\* same value, and the environment has exactly the entries of the argument.
C32_ReplaceMinimalCalls ==
    (result.op = "env_replace" /\ result.err = "none") =>
        /\ \A n \in Range(EnvNamesOf(result.val.before)) \ Range(KeysOf(result.val.args.hash2)) :
              Count(result.val.calls, OsSet(n, Qnil)) = 1
        /\ \A e \in Range(result.val.args.hash2) \ EnvPairs(result.val.before) :
              Count(result.val.calls, OsSet(e[1], e[2])) = 1
        /\ \A e \in Range(result.val.args.hash2) \cap EnvPairs(result.val.before) :
              Count(result.val.calls, OsSet(e[1], e[2])) = 0
        /\ EnvPairs(trace.environ) = Range(result.val.args.hash2)

\* C33: while replace runs and after it has returned, when the environment
\* had variables at its start and its argument has entries, the environment
\* has variables, and every name that was set at the start and is in the
\* argument is set.
C33_ReplaceNeverEmpty ==
    /\ (stack # <<>> /\ Top.op = "env_replace" /\ Top.start # <<>> /\ Top.hash2 # <<>>) =>
          /\ trace.environ # <<>>
          /\ Range(EnvNamesOf(Top.start)) \cap Range(KeysOf(Top.hash2))
                \subseteq Range(EnvNamesOf(trace.environ))
    /\ (result.op = "env_replace" /\ result.val.before # <<>>
            /\ result.val.args.hash2 # <<>>) =>
          /\ trace.environ # <<>>
          /\ Range(EnvNamesOf(result.val.before)) \cap Range(KeysOf(result.val.args.hash2))
                \subseteq Range(EnvNamesOf(trace.environ))

\* replace has deleted the first of the names that are not in its argument;
\* another name of the start is in the argument
C33_Witness ==
    /\ stack # <<>>
    /\ Top.op = "env_replace"
    /\ Top.pc = "del"
    /\ Top.pos = 2
    /\ Len(trace.environ) < Len(Top.start) + Len(Top.hash2)
    /\ Range(EnvNamesOf(Top.start)) \cap Range(KeysOf(Top.hash2)) # {}
    /\ Range(EnvNamesOf(Top.start)) \ Range(KeysOf(Top.hash2)) # {}

\* the last call had a name with a NUL in it, or was []= with such a value
\* or with nil
BadCall ==
    /\ result.op \in {"env_aset", "rb_f_getenv", "env_fetch", "env_delete_m", "env_has_key"}
    /\ \/ HasNul(result.val.args.key)
       \/ result.op = "env_aset" /\ HasNul(result.val.args.val)
       \/ result.op = "env_aset" /\ result.val.args.val = Qnil

\* C34: []= with a name or a value that has a NUL in it or with the value
\* nil, and [], fetch, delete and has_key? with such a name, raise without
\* having called getenv or ruby_setenv and without having called the block,
\* and the environment is what it was.
C34_BadNameRaises ==
    BadCall =>
        /\ result.err # "none"
        /\ result.val.calls = <<>>
        /\ result.val.yields = <<>>
        /\ trace.environ = result.val.before

\* []= has been refused for the name 5, which read as a C string is the
\* name 1; the variable 1 is set to another value than the one given
C34_Witness ==
    /\ result.op = "env_aset"
    /\ result.val.args.key = 5
    /\ result.val.args.val = 1
    /\ result.err = "bad environment variable name"
    /\ getenv(trace.environ, 1) = 2

\* C35: delete of ENV answers as delete of a Hash does: for a name that is
\* set, the variable is removed and its value returned; for a name that is
\* not set and with a block, the block is called once with the name and
\* what the block answers is returned; for a name that is not set and
\* without a block, nil is returned; and in the last two cases the
\* environment is what it was.
C35_EnvDeleteAsHash ==
    (result.op = "env_delete_m" /\ result.err = "none") =>
        IF getenv(result.val.before, result.val.args.key) # Qnil
        THEN /\ result.val.ans = getenv(result.val.before, result.val.args.key)
             /\ getenv(trace.environ, result.val.args.key) = Qnil
             /\ result.val.yields = <<>>
        ELSE IF result.val.args.bg
        THEN /\ result.val.yields = <<result.val.args.key>>
             /\ result.val.ans = BlockValue(result.val.args.key)
             /\ trace.environ = result.val.before
        ELSE /\ result.val.yields = <<>>
             /\ result.val.ans = Qnil
             /\ trace.environ = result.val.before

\* C40: update of ENV with a block calls the block for every entry of its
\* argument, in order, with the name, the value the variable has when the
\* block is called (nil when it is not set) and the value of the entry, and
\* sets the variable to what the block answers; without a block it sets
\* every entry of the argument and leaves the variables whose names are not
\* in the argument as they were.
C40_EnvUpdateEveryKey ==
    /\ (result.op = "env_update" /\ result.err = "none") =>
          /\ result.val.ans = 1
          /\ result.val.yields =
                IF result.val.args.res = "none" THEN <<>>
                ELSE [i \in DOMAIN result.val.args.hash2 |->
                         <<result.val.args.hash2[i][1],
                           getenv(result.val.envs[i], result.val.args.hash2[i][1]),
                           result.val.args.hash2[i][2]>>]
          /\ result.val.args.res = "none" =>
                /\ \A i \in DOMAIN result.val.args.hash2 :
                      getenv(trace.environ, result.val.args.hash2[i][1]) =
                         result.val.args.hash2[i][2]
                /\ \A n \in EnvNames \ Range(KeysOf(result.val.args.hash2)) :
                      getenv(trace.environ, n) = getenv(result.val.before, n)
    /\ (result.op = "env_update_i" /\ stack # <<>>) =>
          /\ getenv(trace.environ, result.val.key) = result.val.value
          /\ Top.res # "none" => Len(Top.yields) = Top.pos - 1
          /\ result.val.value =
                IF Top.res = "old" THEN Top.yields[Top.pos - 1][2]
                ELSE Top.hash2[Top.pos - 1][2]

\* update has called its block for two names that were set; the block
\* deleted the second when it was called for the first, so it was called
\* with nil for the second, and update has set it to what the block answered
C40_Witness ==
    /\ result.op = "env_update"
    /\ result.err = "none"
    /\ result.val.args.res = "new"
    /\ Len(result.val.yields) = 2
    /\ getenv(result.val.before, 2) = 1
    /\ result.val.yields[2] = <<2, Qnil, 1>>
    /\ getenv(trace.environ, 2) = 1

(***************************************************************************)
(* Properties of size and of the table (Spec, SpecTable).                  *)
(***************************************************************************)
\* C37: in every state, also while traversals are in progress and slots
\* are marked Qundef, size is the number of live entries, which is the
\* number of keys that keys answers, and empty? is true exactly when there
\* is none; delete and clear called from a block lower size at once.
C37_SizeCountsLive ==
    /\ rb_hash_size(hash) = Len(LiveEntries(hash))
    /\ rb_hash_size(hash) = Len(rb_hash_keys(hash).acc)
    /\ rb_hash_empty_p(hash) <=> LiveEntries(hash) = <<>>

\* clear has been called from a block: the slots are still in the table,
\* all marked Qundef, and size is 0
C37_Witness ==
    /\ hash.iter_lev > 0
    /\ result.op = "clear"
    /\ Len(hash.tbl.slots) >= 2
    /\ HasTombstone(hash)
    /\ rb_hash_size(hash) = 0
    /\ rb_hash_empty_p(hash)

\* C38: while a traversal of the Hash is in progress no step puts another
\* table in the place of its table, whatever the blocks call (rehash and
\* compare_by_identity, which are refused, replace, []=, delete, shift,
\* clear), and no traversal ends with "rehash occurred during iteration".
C38_TableKeptInTraversal ==
    [][/\ hash.iter_lev > 0 => hash'.ntbl = hash.ntbl
       /\ result'.err # "rehash occurred during iteration"]_vars

\* compare_by_identity has been refused in a block: the type of the table
\* is changed, the table is the one being traversed
C38_Witness ==
    /\ hash.iter_lev > 0
    /\ result.op = "compare_by_identity"
    /\ result.err = "rehash during iteration"
    /\ hash.tbl.type = "identhash"
    /\ rb_hash_size(hash) >= 1

(***************************************************************************)
(* Properties of traversals whose blocks delete (SpecTrav).                *)
(***************************************************************************)
\* the place of a key in a sequence of distinct keys
Rank(seq, key) == CHOOSE i \in DOMAIN seq : seq[i] = key

\* seen has keys of start only, in the order of start, none twice
InOrderOf(seen, start) ==
    /\ Range(seen) \subseteq Range(start)
    /\ \A i, j \in DOMAIN seen : i < j => Rank(start, seen[i]) < Rank(start, seen[j])

\* C36: a traversal whose blocks delete entries passes to its block only
\* entries that are live when it reaches them: a key that was deleted
\* before the traversal came to it is not passed later; the keys passed are
\* in the order they had at the start, none twice; and a traversal that
\* runs to its end has passed every key of the start that was not deleted
\* meanwhile.
C36_LiveEntriesInOrder ==
    /\ \A i \in DOMAIN trace.frames :
          /\ ~trace.frames[i].late
          /\ InOrderOf(trace.frames[i].seen, trace.frames[i].start)
    /\ trace.last.on =>
          /\ ~trace.last.g.late
          /\ InOrderOf(trace.last.g.seen, trace.last.g.start)
          /\ trace.last.err = "none" =>
                Range(trace.last.g.start) \ trace.last.g.dead
                   \subseteq Range(trace.last.g.seen)

\* a traversal of three entries has run to its end; its block deleted the
\* second entry before the traversal came to it, and was called for the
\* first and the third
C36_Witness ==
    /\ stack = <<>>
    /\ trace.last.on
    /\ trace.last.err = "none"
    /\ Len(trace.last.g.start) = 3
    /\ trace.last.g.seen = <<trace.last.g.start[1], trace.last.g.start[3]>>
    /\ trace.last.g.dead = {trace.last.g.start[2]}

\* C39: every traversal in progress ends, whatever its blocks delete and
\* whatever traversals they start; it has called its block at most as often
\* as there were live entries at its start; iter_lev is the number of
\* traversals in progress, so it is back at its value of before when the
\* traversal has ended; and when no traversal is in progress no slot is
\* marked Qundef.
C39_TraversalEnds ==
    /\ [](\A i \in DOMAIN trace.runs : trace.runs[i].steps <= trace.runs[i].n0)
    /\ [](hash.iter_lev = Len(stack))
    /\ [](stack = <<>> => ~HasTombstone(hash) /\ ~hash.deleted)
    /\ \A d \in 1..MaxNest : (Len(stack) = d) ~> (Len(stack) < d)

\* a traversal has ended whose block started another traversal that deleted
\* entries; the slots marked Qundef have just been removed
C39_Witness ==
    /\ stack = <<>>
    /\ hash.iter_lev = 0
    /\ result.op = "each"
    /\ result.err = "none"
    /\ result.swept = 3

====
